---- MODULE Spec2Model ----
(***************************************************************************)
(* Interactive-Commit: the audio detection coordinator, its probes, the    *)
(* commit-line formatter and the git hook, modelled from the Go CLI        *)
(* (internal/audio, internal/format, internal/cli) and from the editor     *)
(* extension's coordinator (vscode-extension/src/audioDetector.ts).        *)
(*                                                                         *)
(* Three specifications share the variables: Spec is one detection pass of *)
(* either coordinator on every machine, SpecHook one run of the git hook   *)
(* on every message file, SpecFormat a caller of the formatter.            *)
(*                                                                         *)
(* Strings are TLA+ strings handled character by character.  Two non-ASCII *)
(* characters of the source are written with ASCII stand-ins, one          *)
(* character each: "@" for the musical-note emoji U+1F3B5 and "~" for the  *)
(* en dash U+2013.                                                         *)
(***************************************************************************)
EXTENDS Integers, Sequences, FiniteSets, TLC

VARIABLES
    impl,       \* who runs: "go" (hook + AudioManager), "cmd" (detect command + AudioManager),
                \* "ts" (extension), "format" (formatter), "parse" (title parsers),
                \* "editor" (extension's commit enhancement), "bar" (extension's status bar)
    env,        \* the machine: OS family, PATH, WSL markers, what each tool answers
    file,       \* content of the commit message file
    pc,         \* position of the running handler
    idx,        \* index of the probe the pass is at (1-based)
    left,       \* external commands that can still complete before the ctx deadline
    calls,      \* log of probe calls of the pass: <<op, probe index>>
    avail,      \* answers of the availability checks made in this pass
    outs,       \* what each invoked probe's detect returned in this pass
    media,      \* the record the pass returned (Nil when none)
    err,        \* the error the pass returned ("" when nil)
    hookRet,    \* what runHook returned: "running", "nil", "error", "panic"
    line,       \* the line the formatter produced in this run ("" before)
    listed,     \* what the list-available query answered (<<>> before)
    children,   \* probes (by index) whose child process is running
    pending,    \* editor enhancements suspended at an await: <<path, text read>>;
                \* status-bar updates suspended at their await
    bar,        \* the StatusBarManager: settings, timer, listener, item, currentMedia
    history     \* how the earlier runs of the hook on this message file ended

vars == <<impl, env, file, pc, idx, left, calls, avail, outs, media, err, hookRet, line,
          listed, children, pending, bar, history>>

----------------------------------------------------------------------------
(* Go's strings package, on TLA+ strings.  Positions are 1-based; Index     *)
(* answers 0 where Go answers -1.  Intermediate values are passed as        *)
(* operator arguments (each helper below is the rest of the function named  *)
(* in its comment).                                                         *)

(* F(x) with x evaluated before F is entered (TLC otherwise evaluates an   *)
(* operator's argument anew at each of its uses, inside the operator)      *)
Eval(F(_), x) == CHOOSE r \in {F(v) : v \in {x}} : TRUE

(* s[i-1:j] clamped to the string: "" when the range is empty or outside *)
Sub(s, i, j) ==
    IF (IF i < 1 THEN 1 ELSE i) > (IF j > Len(s) THEN Len(s) ELSE j) THEN ""
    ELSE SubSeq(s, IF i < 1 THEN 1 ELSE i, IF j > Len(s) THEN Len(s) ELSE j)

At(s, i) == Sub(s, i, i)

HasPrefix(s, p) == Len(s) >= Len(p) /\ Sub(s, 1, Len(p)) = p

HasSuffix(s, p) == Len(s) >= Len(p) /\ Sub(s, Len(s) - Len(p) + 1, Len(s)) = p

TrimPrefix(s, p) == IF HasPrefix(s, p) THEN Sub(s, Len(p) + 1, Len(s)) ELSE s

TrimSuffix(s, p) == IF HasSuffix(s, p) THEN Sub(s, 1, Len(s) - Len(p)) ELSE s

Occurrences(s, sub) ==
    {i \in 1..(Len(s) - Len(sub) + 1) : Sub(s, i, i + Len(sub) - 1) = sub}

MinOr0(I) == IF I = {} THEN 0 ELSE CHOOSE i \in I : \A j \in I : i <= j

MaxOr0(I) == IF I = {} THEN 0 ELSE CHOOSE i \in I : \A j \in I : i >= j

Index(s, sub) == MinOr0(Occurrences(s, sub))

LastIndex(s, sub) == MaxOr0(Occurrences(s, sub))

Contains(s, sub) == Occurrences(s, sub) # {}

RECURSIVE Split(_, _)
(* strings.Split cut at the first separator, found at i *)
SplitAt(s, sep, i) ==
    IF i = 0 THEN <<s>>
    ELSE <<Sub(s, 1, i - 1)>> \o Split(Sub(s, i + Len(sep), Len(s)), sep)

Split(s, sep) == SplitAt(s, sep, Index(s, sep))

RECURSIVE Join(_, _)
Join(parts, sep) ==
    IF Len(parts) = 0 THEN ""
    ELSE IF Len(parts) = 1 THEN parts[1]
    ELSE parts[1] \o sep \o Join(Tail(parts), sep)

ReplaceAll(s, old, new) == Eval(LAMBDA v : Join(Split(v, old), new), s)

(* s cut to the positions from the first to the last one in K *)
Span(s, K) == IF K = {} THEN "" ELSE Sub(s, MinOr0(K), MaxOr0(K))

SpaceChars == {" ", "\t", "\n", "\r"}

TrimSpace(s) == Span(s, {i \in 1..Len(s) : At(s, i) \notin SpaceChars})

(* strings.TrimRight(s, cutset) for a cutset of one character *)
TrimRight(s, cut) == Sub(s, 1, MaxOr0({i \in 1..Len(s) : At(s, i) # cut}))

UpperLetters == "ABCDEFGHIJKLMNOPQRSTUVWXYZ"
LowerLetters == "abcdefghijklmnopqrstuvwxyz"

(* the character of `to` at the place c has in `from`, else c *)
MapChar(c, i, to) == IF Len(c) = 1 /\ i # 0 THEN At(to, i) ELSE c

LowerChar(c) == MapChar(c, Index(UpperLetters, c), LowerLetters)

UpperChar(c) == MapChar(c, Index(LowerLetters, c), UpperLetters)

RECURSIVE ToLower(_)
ToLower(s) ==
    IF Len(s) <= 1 THEN LowerChar(s)
    ELSE ToLower(Sub(s, 1, Len(s) \div 2)) \o ToLower(Sub(s, Len(s) \div 2 + 1, Len(s)))

RECURSIVE ToUpper(_)
ToUpper(s) ==
    IF Len(s) <= 1 THEN UpperChar(s)
    ELSE ToUpper(Sub(s, 1, Len(s) \div 2)) \o ToUpper(Sub(s, Len(s) \div 2 + 1, Len(s)))

----------------------------------------------------------------------------
(* MediaInfo, and the nil *MediaInfo                                        *)

Nil == [ok |-> FALSE]

(* no StatusBarManager constructed *)
NoBar == [made |-> FALSE]

MediaInfo(title, artist, album, source, type) ==
    [ok |-> TRUE, Title |-> title, Artist |-> artist, Album |-> album,
     Source |-> source, Type |-> type]

----------------------------------------------------------------------------
(* internal/format/commit.go                                                *)

(* FormatCommitMessage without the test of line 15 *)
FormatCommitMessage_AlwaysBy(m) ==
    IF ~m.ok THEN ""
    ELSE "@ Currently playing: \"" \o m.Title \o "\" by " \o m.Artist \o " (" \o m.Source \o ")"

FormatCommitMessage(m) ==
    IF ~m.ok THEN ""
    ELSE IF m.Artist # ""
         THEN "@ Currently playing: \"" \o m.Title \o "\" by " \o m.Artist \o " (" \o m.Source \o ")"
         ELSE "@ Currently playing: \"" \o m.Title \o "\" (" \o m.Source \o ")"

----------------------------------------------------------------------------
(* External commands.  A tool's answer is an outcome: it prints `out` and   *)
(* exits 0 ("ok"), fails ("err": missing, non-zero exit), or never answers  *)
(* ("hang").  exec.CommandContext(ctx, ...) ties every command of a pass to *)
(* the one ctx of the caller: `l` counts the commands that can still        *)
(* complete before its deadline.  A command started after the deadline      *)
(* fails at once; one that never answers is killed at the deadline.         *)

Ok(out) == [st |-> "ok", out |-> out]
Failed == [st |-> "err", out |-> ""]
Hang == [st |-> "hang", out |-> ""]

(* RunCmd with a deadline of its own for every command *)
RunCmd_OwnDeadline(o, l) ==
    IF o.st = "hang" THEN [st |-> "err", out |-> "", left |-> 0]
    ELSE [st |-> o.st, out |-> o.out, left |-> IF l = 0 THEN 0 ELSE l - 1]

RunCmd(o, l) ==
    IF l = 0 THEN [st |-> "err", out |-> "", left |-> 0]
    ELSE IF o.st = "hang" THEN [st |-> "err", out |-> "", left |-> 0]
    ELSE [st |-> o.st, out |-> o.out, left |-> l - 1]

(* What a probe's Detect hands back: (media, err), or a panic, and the      *)
(* commands left before the deadline afterwards.                            *)
Ret(m, e, l) == [media |-> m, err |-> e, panic |-> FALSE, left |-> l]
Panic(l) == [media |-> Nil, err |-> "", panic |-> TRUE, left |-> l]

(* What the external tools of a machine answer.  env names one scenario per *)
(* tool by its position in these lists; position 1 is "the tool fails".     *)

NoPlayerctl == [title |-> Failed, artist |-> Failed, album |-> Failed, list |-> Failed]

PlayerctlScenarios ==
    << NoPlayerctl,
      [title |-> Ok("Hamnitishi\n"), artist |-> Ok("E-Sir\n"), album |-> Ok("\n"), list |-> Ok("spotify\nvlc\n")],
      [title |-> Ok("\n"), artist |-> Ok("\n"), album |-> Ok("\n"), list |-> Ok("vlc\n")],
      [title |-> Ok("Intro\n"), artist |-> Failed, album |-> Failed, list |-> Ok(".hidden\n")],
      [title |-> Hang, artist |-> Failed, album |-> Failed, list |-> Failed],
      [title |-> Ok("Intro\n"), artist |-> Hang, album |-> Ok("\n"), list |-> Ok("vlc\n")],
      [title |-> Ok("Lo-Fi Beats\n"), artist |-> Ok("\n"), album |-> Ok("\n"), list |-> Ok("chromium.instance4242\n")] >>

PowershellScenarios ==
    << Failed, Hang, Ok("\r\n"),
      Ok("{\"Title\":\"Hamnitishi\",\"Artist\":\"E-Sir\",\"Source\":\"Spotify\",\"Album\":\"\"}\r\n"),
      Ok("{\"Album\":\"\",\"Source\":\"YouTube Music\",\"Artist\":\"ChilledCow\",\"Title\":\"Lo-Fi Hip Hop\"}\r\n"),
      Ok("Windows PowerShell\r\nCopyright (C) Microsoft Corporation\r\n\r\n{\"Title\":\"Hamnitishi\",\"Artist\":\"E-Sir\",\"Source\":\"Spotify\",\"Album\":\"\"}\r\n"),
      Ok("{\"Title\":null,\"Artist\":\"E-Sir\",\"Source\":\"Spotify\",\"Album\":\"\"}\r\n") >>

appNames == {"Spotify", "Music", "iTunes"}
browserNames == {"Google Chrome", "Safari", "Firefox"}

AllApps(o) == [a \in appNames |-> o]
AllBrowsers(o) == [b \in browserNames |-> o]

NoOsascript ==
    [state |-> AllApps(Failed), title |-> AllApps(Failed), artist |-> AllApps(Failed),
     album |-> AllApps(Failed), windows |-> AllBrowsers(Failed)]

OsascriptScenarios ==
    << NoOsascript,
      [NoOsascript EXCEPT !.state["Spotify"] = Ok("playing\n"), !.title["Spotify"] = Ok("Hamnitishi\n"),
                          !.artist["Spotify"] = Ok("E-Sir\n"), !.album["Spotify"] = Ok("missing value\n")],
      [NoOsascript EXCEPT !.state["Spotify"] = Ok("paused\n"), !.state["Music"] = Ok("playing\n"),
                          !.title["Music"] = Ok("missing value\n"),
                          !.windows["Google Chrome"] =
                              Ok("Inbox - Google Chrome, E-Sir - Hamnitishi (Official Video) - YouTube - Google Chrome\n")],
      [NoOsascript EXCEPT !.windows["Safari"] = Ok("(Official Video) - YouTube\n")],
      [NoOsascript EXCEPT !.state["Spotify"] = Hang],
      [NoOsascript EXCEPT !.windows["Google Chrome"] = Ok("Inbox (3) - Google Chrome\n"),
                          !.windows["Safari"] = Ok("\n")],
      [NoOsascript EXCEPT !.state["Music"] = Ok("playing\n"), !.title["Music"] = Ok("Intro\n"),
                          !.artist["Music"] = Hang, !.album["Music"] = Ok("Album\n")],
      [NoOsascript EXCEPT !.windows["Safari"] = Ok("YouTube\n")] >>


(* the answers of playerctl, powershell.exe and osascript on machine e *)
Playerctl(e) == PlayerctlScenarios[e.playerctl]
Powershell(e) == PowershellScenarios[e.powershell]
Osascript(e) == OsascriptScenarios[e.osascript]

----------------------------------------------------------------------------
(* MPRISDetector (detector.go 32-108)                                       *)

MPRIS_Name == "MPRIS/playerctl"

MPRIS_IsAvailable(e) ==
    IF e.goos # "linux" THEN FALSE ELSE "playerctl" \in e.path

(* getPlayerctlMetadata after cmd.Output() *)
MetadataOf(c) ==
    IF c.st # "ok" THEN [out |-> "", err |-> "exec", left |-> c.left]
    ELSE [out |-> TrimSpace(c.out), err |-> "", left |-> c.left]

getPlayerctlMetadata(o, l) == MetadataOf(RunCmd(o, l))

(* word[:1]: a slice of an empty string panics (slice bounds out of range) *)
CapitalizePlayer(word, l) ==
    IF Len(word) < 1
    THEN [out |-> "", err |-> "", panic |-> TRUE, left |-> l]
    ELSE [out |-> ToUpper(Sub(word, 1, 1)) \o ToLower(Sub(word, 2, Len(word))),
          err |-> "", panic |-> FALSE, left |-> l]

(* getActivePlayer from `players := strings.Split(...)` on *)
FirstPlayer(players, l) ==
    IF Len(players) > 0 /\ players[1] # ""
    THEN CapitalizePlayer(IF Contains(players[1], ".") THEN Split(players[1], ".")[1]
                          ELSE players[1], l)
    ELSE [out |-> "", err |-> "", panic |-> FALSE, left |-> l]

(* getActivePlayer after cmd.Output() *)
ActivePlayerOf(c) ==
    IF c.st # "ok" THEN [out |-> "", err |-> "exec", panic |-> FALSE, left |-> c.left]
    ELSE FirstPlayer(Split(TrimSpace(c.out), "\n"), c.left)

getActivePlayer(o, l) == ActivePlayerOf(RunCmd(o, l))

(* MPRISDetector.Detect once the player list is in: lines 65-76 *)
MPRIS_Source(title, artist, album, p) ==
    IF p.panic THEN Panic(p.left)
    ELSE Ret(MediaInfo(title, artist, album, IF p.out = "" THEN "Unknown" ELSE p.out, "song"),
             "", p.left)

(* line 65 *)
MPRIS_Album(e, title, artist, al) ==
    MPRIS_Source(title, artist, al.out, getActivePlayer(Playerctl(e).list, al.left))

(* line 62 *)
MPRIS_Artist(e, title, a) ==
    MPRIS_Album(e, title, a.out, getPlayerctlMetadata(Playerctl(e).album, a.left))

(* lines 53-61 *)
MPRIS_Title(e, t) ==
    IF t.err # "" THEN Ret(Nil, t.err, t.left)
    ELSE IF t.out = "" THEN Ret(Nil, "", t.left)
    ELSE MPRIS_Artist(e, t.out, getPlayerctlMetadata(Playerctl(e).artist, t.left))

MPRIS_Detect(e, l) == MPRIS_Title(e, getPlayerctlMetadata(Playerctl(e).title, l))

----------------------------------------------------------------------------
(* encoding/json.Unmarshal into the struct of four string fields, for the   *)
(* compact objects ConvertTo-Json -Compress prints: {"k":"v","k":null,...}. *)
(* Anything else is a syntax error.  Keys match field names without regard  *)
(* to case, a later member overrides an earlier one, null leaves the field  *)
(* at its zero value.                                                       *)

RECURSIVE ScanString(_, _, _)
(* s[i] is the first character after an opening quote *)
ScanString(s, i, acc) ==
    IF i > Len(s) THEN [ok |-> FALSE, val |-> "", next |-> i]
    ELSE IF At(s, i) = "\"" THEN [ok |-> TRUE, val |-> acc, next |-> i + 1]
    ELSE IF At(s, i) = "\\"
         THEN IF i + 1 <= Len(s) /\ At(s, i + 1) \in {"\"", "\\", "/"}
              THEN ScanString(s, i + 2, acc \o At(s, i + 1))
              ELSE [ok |-> FALSE, val |-> "", next |-> i]
    ELSE IF At(s, i) \in {"\n", "\t", "\r"} THEN [ok |-> FALSE, val |-> "", next |-> i]
    ELSE ScanString(s, i + 1, acc \o At(s, i))

ScanValue(s, i) ==
    IF At(s, i) = "\"" THEN ScanString(s, i + 1, "")
    ELSE IF Sub(s, i, i + 3) = "null" THEN [ok |-> TRUE, val |-> "", next |-> i + 4]
    ELSE [ok |-> FALSE, val |-> "", next |-> i]

NoObject == [x \in {} |-> ""]
SyntaxError == [ok |-> FALSE, obj |-> NoObject]

Put(acc, key, val) == [x \in DOMAIN acc \cup {key} |-> IF x = key THEN val ELSE acc[x]]

RECURSIVE ScanMembers(_, _, _)
(* after a member: a comma and the next member, or the closing brace *)
MemberNext(s, j, acc) ==
    IF At(s, j) = "," THEN ScanMembers(s, j + 1, acc)
    ELSE IF At(s, j) = "}" /\ j = Len(s) THEN [ok |-> TRUE, obj |-> acc]
    ELSE SyntaxError

MemberValue(s, acc, key, v) ==
    IF ~v.ok THEN SyntaxError ELSE MemberNext(s, v.next, Put(acc, key, v.val))

MemberKey(s, acc, k) ==
    IF ~k.ok \/ At(s, k.next) # ":" THEN SyntaxError
    ELSE MemberValue(s, acc, ToLower(k.val), ScanValue(s, k.next + 1))

(* s[i] is where a member must start; acc maps lower-cased keys to values *)
ScanMembers(s, i, acc) ==
    IF At(s, i) # "\"" THEN SyntaxError ELSE MemberKey(s, acc, ScanString(s, i + 1, ""))

Field(p, name) == IF p.ok /\ name \in DOMAIN p.obj THEN p.obj[name] ELSE ""

Fields(p) ==
    [ok |-> p.ok, Title |-> Field(p, "title"), Artist |-> Field(p, "artist"),
     Album |-> Field(p, "album"), Source |-> Field(p, "source")]

Unmarshal(s) ==
    Fields(IF s = "{}" THEN [ok |-> TRUE, obj |-> NoObject]
           ELSE IF At(s, 1) = "{" THEN ScanMembers(s, 2, NoObject)
           ELSE SyntaxError)

----------------------------------------------------------------------------
(* WSLWindowsDetector, the calling side (detector.go 110-139, 250-360)      *)

WSL_Name == "WSL2/Windows Media Session"

isWSL(e) ==
    IF e.procVersion.exists /\ Contains(ToLower(e.procVersion.content), "microsoft")
    THEN TRUE
    ELSE e.wslDistro # ""

WSL_IsAvailable(e) ==
    IF ~isWSL(e) THEN FALSE ELSE "powershell.exe" \in e.path

IsLetter(c) == Len(c) = 1 /\ (Contains(UpperLetters, c) \/ Contains(LowerLetters, c))

RECURSIVE TitleFrom(_, _)
(* strings.Title: upper-case the first letter of every word *)
TitleFrom(s, prev) ==
    IF Len(s) = 0 THEN ""
    ELSE (IF IsLetter(prev) THEN At(s, 1) ELSE UpperChar(At(s, 1)))
         \o TitleFrom(Sub(s, 2, Len(s)), At(s, 1))

Title(s) == TitleFrom(s, " ")

appMappings ==
    [x \in {"Spotify.exe", "msedge.exe", "chrome.exe", "firefox.exe", "vlc.exe",
            "Microsoft.ZuneMusic", "Microsoft.WindowsMediaPlayer", "YouTubeMusic"} |->
        CASE x = "Spotify.exe" -> "Spotify"
          [] x = "msedge.exe" -> "Microsoft Edge"
          [] x = "chrome.exe" -> "Google Chrome"
          [] x = "firefox.exe" -> "Firefox"
          [] x = "vlc.exe" -> "VLC"
          [] x = "Microsoft.ZuneMusic" -> "Groove Music"
          [] x = "Microsoft.WindowsMediaPlayer" -> "Windows Media Player"
          [] x = "YouTubeMusic" -> "YouTube Music"]

(* cleanSourceName after the direct mapping; lower is strings.ToLower(appId) *)
sourceFromPattern(appId, lower) ==
    IF Contains(lower, "spotify") THEN "Spotify"
    ELSE IF Contains(lower, "chrome") THEN "Google Chrome"
    ELSE IF Contains(lower, "edge") THEN "Microsoft Edge"
    ELSE IF Contains(lower, "youtube") THEN "YouTube Music"
    ELSE IF HasSuffix(appId, ".exe") THEN TrimSuffix(appId, ".exe")
    ELSE IF Contains(appId, "!") THEN Title(ToLower(Split(appId, "!")[1]))
    ELSE appId

cleanSourceName(appId) ==
    IF appId \in DOMAIN appMappings THEN appMappings[appId]
    ELSE sourceFromPattern(appId, ToLower(appId))

(* determineMediaType on the lower-cased title and source *)
mediaTypeOf(title, source) ==
    IF Contains(source, "podcast") \/ Contains(title, "episode") \/ Contains(title, "podcast")
    THEN "podcast"
    ELSE IF Contains(source, "youtube") \/ Contains(source, "edge")
              \/ Contains(source, "chrome") \/ Contains(source, "firefox")
    THEN "video"
    ELSE "song"

determineMediaType(title, source) == mediaTypeOf(ToLower(title), ToLower(source))

(* lines 278-287 *)
WSL_Record(result, source, l) ==
    Ret(MediaInfo(result.Title, result.Artist, result.Album, source,
                  determineMediaType(result.Title, source)), "", l)

(* lines 274-279 *)
WSL_Result(result, l) ==
    IF ~result.ok THEN Ret(Nil, "failed to parse media session data", l)
    ELSE WSL_Record(result, cleanSourceName(result.Source), l)

(* lines 261-274 *)
WSL_Parse(outputStr, l) ==
    IF outputStr = "" THEN Ret(Nil, "", l)
    ELSE Eval(LAMBDA result : WSL_Result(result, l), Unmarshal(outputStr))

(* lines 252-261 *)
WSL_Output(c) ==
    IF c.st # "ok" THEN Ret(Nil, "PowerShell failed", c.left)
    ELSE Eval(LAMBDA outputStr : WSL_Parse(outputStr, c.left), TrimSpace(c.out))

(* Powershell(e) is what powershell.exe -Command <script> answers *)
WSL_Detect(e, l) == WSL_Output(RunCmd(Powershell(e), l))

----------------------------------------------------------------------------
(* The script WSLWindowsDetector.Detect hands to powershell.exe             *)
(* (detector.go 143-248), run on the main window titles of the Windows      *)
(* processes: w maps "Spotify", "chrome", "msedge", "firefox" to a title,   *)
(* "" when the process is not running or has no window.  PowerShell's       *)
(* -match, -like, -ne and -replace ignore case; a match of these patterns   *)
(* starts at the first character and its groups are greedy.                 *)

(* '(.+) - (.+)': where the " - " between the groups stands, 0: no match *)
DashAt(s) == MaxOr0({p \in Occurrences(s, " - ") : p >= 2 /\ p + 3 <= Len(s)})

(* where the literal end of a pattern can stand: anywhere, at the end for $ *)
TailsAt(s, tail, anchored) ==
    {q \in Occurrences(ToLower(s), ToLower(tail)) : anchored => q + Len(tail) - 1 = Len(s)}

(* '(.+) - (.+)<tail>' with the tail at one of Q: where the " - " between   *)
(* the groups stands (0: no match), and where the tail then stands          *)
FirstDashAt(s, Q) ==
    MaxOr0({p \in Occurrences(s, " - ") : p >= 2 /\ \E q \in Q : q >= p + 4})

TailAfter(p, Q) == MaxOr0({q \in Q : q >= p + 4})

(* '(.+)<tail>$': where the tail stands, 0: no match *)
TailAt(s, tail) == MaxOr0({q \in TailsAt(s, tail, TRUE) : q >= 2})

SkipSpaces(s, i) == MinOr0({j \in i..(Len(s) + 1) : At(s, j) \notin SpaceChars})

(* the group opened at j ends at the first closing character after it *)
GroupEnd(s, j, open, close) ==
    IF At(s, j) = open THEN MinOr0({k \in (j + 1)..Len(s) : At(s, k) = close}) ELSE 0

(* where the next match of '\s*\([^)]*\)\s*' starts, from position i on *)
GroupAt(s, i, open, close) ==
    MinOr0({j \in i..Len(s) : GroupEnd(s, SkipSpaces(s, j), open, close) > 0})

RECURSIVE StripGroups(_, _, _, _)
(* -replace '\s*\([^)]*\)\s*', '' from position i on; m is the next match *)
StripFrom(s, i, m, open, close) ==
    IF m = 0 THEN Sub(s, i, Len(s))
    ELSE Sub(s, i, m - 1)
         \o StripGroups(s, SkipSpaces(s, GroupEnd(s, SkipSpaces(s, m), open, close) + 1),
                        open, close)

StripGroups(s, i, open, close) ==
    Eval(LAMBDA j : StripFrom(s, j, GroupAt(s, j, open, close), open, close), i)

(* lines 181-182: both -replace, then Trim() *)
PS_Clean(x) ==
    TrimSpace(Eval(LAMBDA y : StripGroups(y, 1, "[", "]"), StripGroups(x, 1, "(", ")")))

(* line 183: the cleaned text, the text itself when nothing is left *)
PS_CleanOr(x, cleaned) == IF cleaned = "" THEN x ELSE cleaned

(* -replace ' - YouTube.*', '' *)
PS_CutYouTube(x, i) == IF i = 0 THEN x ELSE Sub(x, 1, i - 1)

RECURSIVE EscapeJson(_)
(* a quote or a backslash gets a backslash before it *)
EscapeJson(x) ==
    IF Len(x) <= 1 THEN (IF x \in {"\"", "\\"} THEN "\\" \o x ELSE x)
    ELSE EscapeJson(Sub(x, 1, Len(x) \div 2)) \o EscapeJson(Sub(x, Len(x) \div 2 + 1, Len(x)))

(* $result | ConvertTo-Json -Compress *)
PS_Json(title, artist, source) ==
    "{\"Title\":\"" \o EscapeJson(title) \o "\",\"Artist\":\"" \o EscapeJson(artist)
    \o "\",\"Source\":\"" \o EscapeJson(source) \o "\",\"Album\":\"\"}\r\n"

(* line 146: Where-Object on the Spotify process *)
PS_SpotifyShown(t) == t # "" /\ ToLower(t) # "spotify"

(* lines 149-154 *)
PS_Spotify(t, p) == PS_Json(Sub(t, p + 3, Len(t)), Sub(t, 1, p - 1), "Spotify")

(* line 161: Where-Object on a browser process *)
PS_BrowserShown(t) ==
    /\ t # ""
    /\ ~Contains(ToLower(t), "new tab")
    /\ ToLower(t) \notin {"google chrome", "microsoft edge", "firefox"}

(* lines 167-173, the match at p and q *)
PS_YouTubeMusic(t, p, q) == PS_Json(Sub(t, 1, p - 1), Sub(t, p + 3, q - 1), "YouTube Music")

(* lines 177-187 *)
PS_YouTubeChrome(t, p, q) ==
    PS_Json(PS_CleanOr(Sub(t, p + 3, q - 1), PS_Clean(Sub(t, p + 3, q - 1))),
            Sub(t, 1, p - 1), "YouTube")

(* lines 193-201 on $videoTitle *)
PS_VideoTitle(v, p) ==
    IF p > 0
    THEN PS_Json(PS_CleanOr(Sub(v, p + 3, Len(v)), PS_Clean(Sub(v, p + 3, Len(v)))),
                 Sub(v, 1, p - 1), "YouTube")
    ELSE PS_Json(v, "", "YouTube")

(* lines 207-213 *)
PS_YouTubeOther(t, p, q) == PS_Json(Sub(t, p + 3, q - 1), Sub(t, 1, p - 1), "YouTube")

(* lines 217-225; part2 is $matches[2] -replace ' - YouTube.*', '' *)
PS_YouTubePart(part1, part2) == PS_Json(PS_CleanOr(part2, PS_Clean(part2)), part1, "YouTube")

PS_YouTubeGeneric(t, p) ==
    PS_YouTubePart(Sub(t, 1, p - 1),
                   PS_CutYouTube(Sub(t, p + 3, Len(t)),
                                 Index(ToLower(Sub(t, p + 3, Len(t))), " - youtube")))

(* lines 232-237 *)
friendlyBrowser(browserName) ==
    CASE browserName = "chrome" -> "Google Chrome"
      [] browserName = "msedge" -> "Microsoft Edge"
      [] browserName = "firefox" -> "Firefox"
      [] OTHER -> browserName

(* lines 229-240 *)
PS_Fallback(b, t, p) == PS_Json(Sub(t, p + 3, Len(t)), Sub(t, 1, p - 1), friendlyBrowser(b))

PS_FallbackApplies(t, lower) ==
    /\ DashAt(t) > 0
    /\ ~Contains(lower, "google") /\ ~Contains(lower, "microsoft") /\ ~Contains(lower, "firefox")

(* lines 164-241: the rules in the order of the script; "" when none applies *)
PS_Rules(b, t) ==
    IF FirstDashAt(t, TailsAt(t, " - YouTube Music", FALSE)) > 0
    THEN PS_YouTubeMusic(t, FirstDashAt(t, TailsAt(t, " - YouTube Music", FALSE)),
             TailAfter(FirstDashAt(t, TailsAt(t, " - YouTube Music", FALSE)),
                       TailsAt(t, " - YouTube Music", FALSE)))
    ELSE IF FirstDashAt(t, TailsAt(t, " - YouTube - Google Chrome", TRUE)) > 0
    THEN PS_YouTubeChrome(t, FirstDashAt(t, TailsAt(t, " - YouTube - Google Chrome", TRUE)),
             TailAt(t, " - YouTube - Google Chrome"))
    ELSE IF TailAt(t, " - YouTube - Google Chrome") > 0
    THEN PS_VideoTitle(Sub(t, 1, TailAt(t, " - YouTube - Google Chrome") - 1),
                       DashAt(Sub(t, 1, TailAt(t, " - YouTube - Google Chrome") - 1)))
    ELSE IF FirstDashAt(t, TailsAt(t, " - YouTube", TRUE)) > 0
    THEN PS_YouTubeOther(t, FirstDashAt(t, TailsAt(t, " - YouTube", TRUE)), TailAt(t, " - YouTube"))
    ELSE IF Contains(ToLower(t), "youtube") /\ DashAt(t) > 0
    THEN PS_YouTubeGeneric(t, DashAt(t))
    ELSE IF PS_FallbackApplies(t, ToLower(t))
    THEN PS_Fallback(b, t, DashAt(t))
    ELSE ""

psBrowsers == <<"chrome", "msedge", "firefox">>

RECURSIVE PS_Browsers(_, _)
(* lines 159-244: the loop over $browsers from the i-th on *)
PS_Browsers(w, i) ==
    IF i > Len(psBrowsers) THEN ""
    ELSE IF PS_BrowserShown(w[psBrowsers[i]]) /\ PS_Rules(psBrowsers[i], w[psBrowsers[i]]) # ""
    THEN PS_Rules(psBrowsers[i], w[psBrowsers[i]])
    ELSE PS_Browsers(w, i + 1)

(* what the script prints *)
PS_Script(w) ==
    IF PS_SpotifyShown(w["Spotify"]) /\ DashAt(w["Spotify"]) > 0
    THEN PS_Spotify(w["Spotify"], DashAt(w["Spotify"]))
    ELSE PS_Browsers(w, 1)

(* Detect on a machine where the script runs to its end before the deadline *)
WSL_DetectOn(w, l) == Eval(LAMBDA printed : WSL_Output(RunCmd(Ok(printed), l)), PS_Script(w))

----------------------------------------------------------------------------
(* MacOSDetector (detector.go 362-663)                                      *)

Mac_Name == "macOS AppleScript"

Mac_IsAvailable(e) ==
    IF e.goos # "darwin" THEN FALSE ELSE "osascript" \in e.path

apps ==
    <<[name |-> "Spotify", source |-> "Spotify"],
      [name |-> "Music", source |-> "Apple Music"],
      [name |-> "iTunes", source |-> "iTunes"]>>

browsers == <<"Google Chrome", "Safari", "Firefox">>

MissingValue(x) == IF x = "missing value" THEN "" ELSE x

(* lines 433-447: artist and album degrade to "" *)
MissingToEmpty(c) == IF c.st # "ok" THEN "" ELSE MissingValue(TrimSpace(c.out))

RECURSIVE detectMusicAppsFrom(_, _, _)
(* lines 428-455 *)
AppTrack(o, i, title, a, al) ==
    IF title = "" \/ title = "missing value" THEN detectMusicAppsFrom(o, i + 1, al.left)
    ELSE Ret(MediaInfo(title, MissingToEmpty(a), MissingToEmpty(al), apps[i].source, "song"),
             "", al.left)

(* lines 424-428 *)
AppAlbum(o, i, t, a, al) ==
    IF t.st # "ok" THEN detectMusicAppsFrom(o, i + 1, al.left)
    ELSE AppTrack(o, i, TrimSpace(t.out), a, al)

(* line 422 *)
AppArtist(o, i, t, a) == AppAlbum(o, i, t, a, RunCmd(o.album[apps[i].name], a.left))

(* line 421 *)
AppTitle(o, i, t) == AppArtist(o, i, t, RunCmd(o.artist[apps[i].name], t.left))

(* lines 405-420 *)
AppState(o, i, st) ==
    IF st.st # "ok" THEN detectMusicAppsFrom(o, i + 1, st.left)
    ELSE IF TrimSpace(st.out) # "playing" THEN detectMusicAppsFrom(o, i + 1, st.left)
    ELSE AppTitle(o, i, RunCmd(o.title[apps[i].name], st.left))

(* the loop of detectMusicApps from its i-th app on; o is Osascript(e) *)
detectMusicAppsFrom(o, i, l) ==
    IF i > Len(apps) THEN Ret(Nil, "", l)
    ELSE AppState(o, i, RunCmd(o.state[apps[i].name], l))

detectMusicApps(o, l) == detectMusicAppsFrom(o, 1, l)

chromePattern == " - Google Chrome"

(* lines 522-529 *)
TrimCommas(part) ==
    IF HasPrefix(part, ", ")
    THEN (IF HasSuffix(TrimPrefix(part, ", "), ",")
          THEN TrimSuffix(TrimPrefix(part, ", "), ",") ELSE TrimPrefix(part, ", "))
    ELSE (IF HasSuffix(part, ",") THEN TrimSuffix(part, ",") ELSE part)

AppendNonEmpty(lines, part) == IF part # "" THEN Append(lines, part) ELSE lines

RECURSIVE chromeParts(_, _, _)
(* the loop over strings.Split(windowTitles, chromePattern); i is 1-based *)
chromeParts(parts, i, lines) ==
    IF i > Len(parts) THEN lines
    ELSE IF i = Len(parts) /\ TrimSpace(parts[i]) = "" THEN chromeParts(parts, i + 1, lines)
    ELSE chromeParts(parts, i + 1,
            AppendNonEmpty(lines,
                TrimCommas(TrimSpace(IF i > 1 THEN chromePattern \o parts[i]
                                     ELSE IF i < Len(parts) THEN parts[i] \o chromePattern
                                     ELSE parts[i]))))

IsMediaWindow(w) == Contains(w, "YouTube") \/ Contains(w, "Music")
IsPriorityWindow(w) == IsMediaWindow(w) /\ Contains(w, "Audio playing")
IsRegularWindow(w) == IsMediaWindow(w) /\ ~Contains(w, "Audio playing")

(* lines 540-560 *)
prioritize(lines) == SelectSeq(lines, IsPriorityWindow) \o SelectSeq(lines, IsRegularWindow)

findMediaWindows(windowTitles) ==
    prioritize(IF Contains(windowTitles, chromePattern)
               THEN chromeParts(Split(windowTitles, chromePattern), 1, <<>>)
               ELSE Split(windowTitles, ", "))

videoPatterns ==
    <<"(Official Video)", "(official video)", "(Video)", "(video)",
      "(Official Music Video)", "(official music video)", "(Music Video)", "(music video)">>

audioPatterns == <<"(Official Audio)", "(official audio)", "(Audio)", "(audio)">>

RECURSIVE RemoveAll(_, _, _)
RemoveAll(title, patterns, i) ==
    IF i > Len(patterns) THEN title
    ELSE Eval(LAMBDA t : RemoveAll(t, patterns, i + 1), ReplaceAll(title, patterns[i], ""))

(* lines 621-632: keep what precedes the marker, when the lower-cased       *)
(* original title has it                                                    *)
CutFeatured(title, has, marker) ==
    IF has THEN TrimSpace(Split(title, marker)[1]) ELSE title

cleanupLower(title, titleLower) ==
    TrimSpace(RemoveAll(RemoveAll(
        CutFeatured(CutFeatured(title, Contains(titleLower, "ft."), "ft."),
                    Contains(titleLower, "feat."), "feat."),
        videoPatterns, 1), audioPatterns, 1))

cleanupTitle(title) == Eval(LAMBDA t : cleanupLower(t, ToLower(t)), title)

memoryPattern == " MB - Google Chrome"

(* lines 576-580 *)
stripMemoryAt(c, parts, lastDashIndex) ==
    IF lastDashIndex > 0
    THEN Sub(parts[1], 1, lastDashIndex) \o " - Google Chrome" \o Join(Tail(parts), memoryPattern)
    ELSE c

(* lines 572-582 *)
stripMemory(c) ==
    IF Contains(c, memoryPattern)
    THEN stripMemoryAt(c, Split(c, memoryPattern),
                       LastIndex(Split(c, memoryPattern)[1], " - ") - 1)
    ELSE c

(* lines 589-594 *)
cutUserParts(c, parts) == IF Len(parts) > 1 THEN TrimSpace(parts[1]) ELSE c

cutUser(c) == IF Contains(c, "~") THEN cutUserParts(c, Split(c, "~")) ELSE c

(* lines 598-613: <<title, artist>> *)
artistAndTitle(cleanTitle, parts) ==
    IF Len(parts) >= 2
    THEN <<cleanupTitle(TrimSpace(parts[Len(parts)])),
           TrimSpace(Join(SubSeq(parts, 1, Len(parts) - 1), " - "))>>
    ELSE <<cleanupTitle(cleanTitle), "Unknown">>

splitArtist(cleanTitle) == artistAndTitle(cleanTitle, Split(cleanTitle, " - "))

(* lines 565-595: cleanTitle when the split of line 598 is reached *)
cleanWindowTitle(windowTitle) ==
    TrimSpace(cutUser(
        ReplaceAll(ReplaceAll(
            stripMemory(ReplaceAll(ReplaceAll(windowTitle, "~ Audio playing", ""),
                                   "- High memory usage", "")),
            "- Google Chrome", ""), "- YouTube", "")))

(* returns <<title, artist>> *)
parseMediaTitle(windowTitle) == Eval(splitArtist, cleanWindowTitle(windowTitle))

(* lines 598-608: `title` when cleanupTitle is called on it at line 611 *)
titleOf(cleanTitle, parts) ==
    IF Len(parts) >= 2 THEN TrimSpace(parts[Len(parts)]) ELSE cleanTitle

extractedTitle(windowTitle) ==
    titleOf(cleanWindowTitle(windowTitle), Split(cleanWindowTitle(windowTitle), " - "))

RECURSIVE detectBrowserMediaFrom(_, _, _)
(* lines 484-492 *)
BrowserRecord(ta, l) == Ret(MediaInfo(ta[1], ta[2], "", "YouTube", "video"), "", l)

(* lines 478-484 *)
BrowserMedia(o, i, mediaWindows, l) ==
    IF Len(mediaWindows) = 0 THEN detectBrowserMediaFrom(o, i + 1, l)
    ELSE BrowserRecord(parseMediaTitle(mediaWindows[1]), l)

(* lines 472-478 *)
BrowserTitles(o, i, windowTitles, l) ==
    IF windowTitles = "" THEN detectBrowserMediaFrom(o, i + 1, l)
    ELSE BrowserMedia(o, i, findMediaWindows(windowTitles), l)

(* lines 467-472 *)
BrowserWindows(o, i, c) ==
    IF c.st # "ok" THEN detectBrowserMediaFrom(o, i + 1, c.left)
    ELSE BrowserTitles(o, i, TrimSpace(c.out), c.left)

(* the loop of detectBrowserMedia from its i-th browser on; o is Osascript(e) *)
detectBrowserMediaFrom(o, i, l) ==
    IF i > Len(browsers) THEN Ret(Nil, "", l)
    ELSE BrowserWindows(o, i, RunCmd(o.windows[browsers[i]], l))

detectBrowserMedia(o, l) == detectBrowserMediaFrom(o, 1, l)

(* lines 383-388 *)
Mac_Fallback(e, m) ==
    IF m.err = "" /\ m.media.ok THEN m ELSE detectBrowserMedia(Osascript(e), m.left)

Mac_Detect(e, l) == Mac_Fallback(e, detectMusicApps(Osascript(e), l))

----------------------------------------------------------------------------
(* AudioManager (detector.go 665-715)                                       *)

(* addDetectors: all three, in this order, whatever the platform *)
addDetectors == <<"MPRIS", "WSL", "MacOS">>

IsAvailable(d, e) ==
    CASE d = "MPRIS" -> MPRIS_IsAvailable(e)
      [] d = "WSL"   -> WSL_IsAvailable(e)
      [] d = "MacOS" -> Mac_IsAvailable(e)

DetectorDetect(d, e, l) ==
    CASE d = "MPRIS" -> MPRIS_Detect(e, l)
      [] d = "WSL"   -> WSL_Detect(e, l)
      [] d = "MacOS" -> Mac_Detect(e, l)

(* ListDetectors: the detectors that report available, in list order *)
AvailableOn(e, names, i) == IsAvailable(names[i], e)

ListDetectors(e) ==
    [i \in 1..Cardinality({j \in 1..Len(addDetectors) : AvailableOn(e, addDetectors, j)}) |->
        addDetectors[CHOOSE j \in 1..Len(addDetectors) :
            /\ AvailableOn(e, addDetectors, j)
            /\ Cardinality({k \in 1..j : AvailableOn(e, addDetectors, k)}) = i]]

NoAudioError == "no audio detected from any source"

(* NextDetector ending the loop with (nil, nil) *)
NextDetector_NilNil ==
    IF idx < Len(addDetectors)
    THEN /\ pc' = "avail"
         /\ idx' = idx + 1
         /\ UNCHANGED err
    ELSE /\ pc' = "returned"
         /\ UNCHANGED <<idx, err>>

(* the loop goes on to the next detector, or Detect returns its error *)
NextDetector ==
    IF idx < Len(addDetectors)
    THEN /\ pc' = "avail"
         /\ idx' = idx + 1
         /\ UNCHANGED err
    ELSE /\ pc' = "returned"
         /\ err' = NoAudioError
         /\ UNCHANGED idx

(* Availability with the `continue` of line 694 lost: Detect runs anyway *)
Availability_NoSkip(a) ==
    /\ calls' = Append(calls, <<"IsAvailable", idx>>)
    /\ avail' = avail @@ (idx :> a)
    /\ pc' = "detect"
    /\ UNCHANGED <<idx, err>>

(* lines 693-695 with the answer a of detector.IsAvailable() *)
Availability(a) ==
    /\ calls' = Append(calls, <<"IsAvailable", idx>>)
    /\ avail' = avail @@ (idx :> a)
    /\ IF a THEN pc' = "detect" /\ UNCHANGED <<idx, err>> ELSE NextDetector

(* for _, detector := range am.detectors: `if !detector.IsAvailable()`      *)
GoCheckAvailable ==
    /\ impl \in {"go", "cmd"} /\ pc = "avail"
    /\ Availability(IsAvailable(addDetectors[idx], env))
    /\ UNCHANGED <<history, bar, impl, env, file, left, outs, media, hookRet, line, listed, children, pending>>

(* Detected with the `return media, nil` of line 699 lost: the loop goes   *)
(* on and the last record found is the one returned                         *)
Detected_KeepsGoing(r) ==
    /\ calls' = Append(calls, <<"Detect", idx>>)
    /\ outs' = outs @@ (idx :> [media |-> r.media, err |-> r.err, panic |-> r.panic])
    /\ left' = r.left
    /\ UNCHANGED hookRet
    /\ media' = IF r.err = "" /\ r.media.ok THEN r.media ELSE media
    /\ IF idx < Len(addDetectors)
       THEN pc' = "avail" /\ idx' = idx + 1 /\ UNCHANGED err
       ELSE pc' = "returned" /\ UNCHANGED idx
            /\ err' = IF media'.ok THEN "" ELSE NoAudioError

(* Detected returning a probe's error to the caller at once *)
Detected_FailFast(r) ==
    /\ calls' = Append(calls, <<"Detect", idx>>)
    /\ outs' = outs @@ (idx :> [media |-> r.media, err |-> r.err, panic |-> r.panic])
    /\ left' = r.left
    /\ IF r.panic
       THEN /\ pc' = "done"
            /\ hookRet' = "panic"
            /\ UNCHANGED <<idx, media, err>>
       ELSE IF r.err # ""
       THEN /\ pc' = "returned"
            /\ err' = r.err
            /\ UNCHANGED <<idx, media, hookRet>>
       ELSE IF r.media.ok
       THEN /\ pc' = "returned"
            /\ media' = r.media
            /\ UNCHANGED <<idx, err, hookRet>>
       ELSE /\ NextDetector
            /\ UNCHANGED <<media, hookRet>>

(* lines 697-700 with the answer r of detector.Detect(ctx) *)
Detected(r) ==
    /\ calls' = Append(calls, <<"Detect", idx>>)
    /\ outs' = outs @@ (idx :> [media |-> r.media, err |-> r.err, panic |-> r.panic])
    /\ left' = r.left
    /\ IF r.panic
       THEN /\ pc' = "done"
            /\ hookRet' = "panic"
            /\ UNCHANGED <<idx, media, err>>
       ELSE IF r.err = "" /\ r.media.ok
       THEN /\ pc' = "returned"
            /\ media' = r.media
            /\ UNCHANGED <<idx, err, hookRet>>
       ELSE /\ NextDetector
            /\ UNCHANGED <<media, hookRet>>

(* media, err := detector.Detect(ctx); return on err == nil && media != nil *)
GoDetect ==
    /\ impl \in {"go", "cmd"} /\ pc = "detect"
    /\ Detected(DetectorDetect(addDetectors[idx], env, left))
    /\ UNCHANGED <<history, bar, impl, env, file, avail, line, listed, children, pending>>

----------------------------------------------------------------------------
(* runHook (hook.go 23-80)                                                  *)

(* lines 52-57 *)
isRealLine(trimmed) == trimmed # "" /\ ~HasPrefix(trimmed, "#")

realLines(lines) == \E i \in 1..Len(lines) : isRealLine(TrimSpace(lines[i]))

(* lines 50-59 *)
hasRealContent(content) == realLines(Split(content, "\n"))

(* newContent without the TrimRight of line 69 *)
newContent_KeepsNewlines(content, m) ==
    content \o "\n\n" \o FormatCommitMessage(m) \o "\n"

(* lines 65-72 *)
newContent(content, m) ==
    TrimRight(content, "\n") \o "\n\n" \o FormatCommitMessage(m) \o "\n"

(* lines 33-42: read the message file, build the manager, start the ctx *)
HookStart ==
    /\ impl = "go" /\ pc = "start"
    /\ IF ~env.readable
       THEN /\ pc' = "done"
            /\ hookRet' = "error"
            /\ UNCHANGED <<idx, left>>
       ELSE /\ pc' = "avail"
            /\ idx' = 1
            /\ left' = env.budget
            /\ UNCHANGED hookRet
    /\ UNCHANGED <<history, bar, impl, env, file, calls, avail, outs, media, err, line, listed, children, pending>>

(* HookFinish handing the error of Detect on to git *)
HookFinish_FailsOnError ==
    /\ impl = "go" /\ pc = "returned"
    /\ pc' = "done"
    /\ IF err # ""
       THEN /\ hookRet' = "error"
            /\ UNCHANGED <<file, line>>
       ELSE IF ~media.ok \/ ~hasRealContent(file)
       THEN /\ hookRet' = "nil"
            /\ UNCHANGED <<file, line>>
       ELSE /\ line' = FormatCommitMessage(media)
            /\ IF env.writable
               THEN /\ file' = newContent(file, media)
                    /\ hookRet' = "nil"
               ELSE /\ hookRet' = "error"
                    /\ UNCHANGED file
    /\ UNCHANGED <<history, bar, impl, env, idx, left, calls, avail, outs, media, err, listed, children, pending>>

(* HookFinish with a test for a line that is in the message already *)
HookFinish_SkipsDuplicate ==
    /\ impl = "go" /\ pc = "returned"
    /\ pc' = "done"
    /\ IF err # "" \/ ~media.ok
       THEN /\ hookRet' = "nil"
            /\ UNCHANGED <<file, line>>
       ELSE IF ~hasRealContent(file) \/ Contains(file, FormatCommitMessage(media))
       THEN /\ hookRet' = "nil"
            /\ UNCHANGED <<file, line>>
       ELSE /\ line' = FormatCommitMessage(media)
            /\ IF env.writable
               THEN /\ file' = newContent(file, media)
                    /\ hookRet' = "nil"
               ELSE /\ hookRet' = "error"
                    /\ UNCHANGED file
    /\ UNCHANGED <<history, bar, impl, env, idx, left, calls, avail, outs, media, err, listed, children, pending>>

(* lines 44-80: after am.Detect returned *)
HookFinish ==
    /\ impl = "go" /\ pc = "returned"
    /\ pc' = "done"
    /\ IF err # "" \/ ~media.ok
       THEN /\ hookRet' = "nil"
            /\ UNCHANGED <<file, line>>
       ELSE IF ~hasRealContent(file)
       THEN /\ hookRet' = "nil"
            /\ UNCHANGED <<file, line>>
       ELSE /\ line' = FormatCommitMessage(media)
            /\ IF env.writable
               THEN /\ file' = newContent(file, media)
                    /\ hookRet' = "nil"
               ELSE /\ hookRet' = "error"
                    /\ UNCHANGED file
    /\ UNCHANGED <<history, bar, impl, env, idx, left, calls, avail, outs, media, err, listed, children, pending>>

----------------------------------------------------------------------------
(* runDetect, the `detect` command (detect.go 22-74)                        *)

(* formatForCommit that leaves the artist out *)
formatForCommit_NoArtist(m) ==
    "@ Currently playing: \"" \o m.Title \o "\" (" \o m.Source \o ")"

(* lines 69-74; called with a non-nil record only *)
formatForCommit(m) ==
    IF m.Artist # ""
    THEN "@ Currently playing: \"" \o m.Title \o "\" by " \o m.Artist \o " (" \o m.Source \o ")"
    ELSE "@ Currently playing: \"" \o m.Title \o "\" (" \o m.Source \o ")"

(* the IsAvailable calls ListDetectors makes, one per detector of the list *)
ListCalls == [i \in 1..Len(addDetectors) |-> <<"IsAvailable", i>>]

(* lines 23-32: am.ListDetectors() is called and its answer printed *)
DetectList ==
    /\ impl = "cmd" /\ pc = "start"
    /\ listed' = ListDetectors(env)
    /\ calls' = calls \o ListCalls
    /\ pc' = "listed"
    /\ UNCHANGED <<history, bar, impl, env, file, idx, left, avail, outs, media, err, hookRet, line, children, pending>>

(* lines 34-43: nothing available ends the command; else the 10 s ctx      *)
(* starts and am.Detect(ctx) is entered                                     *)
DetectBegin ==
    /\ impl = "cmd" /\ pc = "listed"
    /\ IF Len(listed) = 0
       THEN /\ pc' = "done"
            /\ hookRet' = "nil"
            /\ UNCHANGED <<idx, left>>
       ELSE /\ pc' = "avail"
            /\ idx' = 1
            /\ left' = env.budget
            /\ UNCHANGED hookRet
    /\ UNCHANGED <<history, bar, impl, env, file, calls, avail, outs, media, err, line, listed, children, pending>>

detectionFailed == "Detection failed: "
noAudioPlaying == "No audio currently playing"

(* detect.go 43-64: the last message runDetect prints for what am.Detect    *)
(* returned (the symbol that starts each message is left out)               *)
runDetectShows(m, e) ==
    IF e # "" THEN detectionFailed \o e
    ELSE IF ~m.ok THEN noAudioPlaying
    ELSE formatForCommit(m)

(* lines 44-66: after am.Detect returned, the failure, the empty result or  *)
(* the record and the commit message addition are printed                   *)
DetectFinish ==
    /\ impl = "cmd" /\ pc = "returned"
    /\ pc' = "done"
    /\ hookRet' = "nil"
    /\ line' = runDetectShows(media, err)
    /\ UNCHANGED <<history, bar, impl, env, file, idx, left, calls, avail, outs, media, err, listed, children, pending>>

----------------------------------------------------------------------------
(* The extension's coordinator (audioDetector.ts 25-91)                     *)

platform(e) == IF e.goos = "windows" THEN "win32" ELSE e.goos

(* AudioDetector.isWSL: /proc/version decides when it exists *)
TS_isWSL(e) ==
    IF e.procVersion.exists
    THEN Contains(ToLower(e.procVersion.content), "microsoft")
    ELSE e.wslDistro # ""

initializeDetectors(e) ==
    (IF TS_isWSL(e) \/ platform(e) = "win32" THEN <<"WSL">> ELSE <<>>)
    \o (IF platform(e) = "linux" THEN <<"MPRIS">> ELSE <<>>)
    \o (IF platform(e) = "darwin" THEN <<"MacOS">> ELSE <<>>)

(* isAvailable() of the three detectors (lines 96-104, 270-277, 307-309):   *)
(* "true", "false", or "pending" when the awaited child process never exits *)
TS_isAvailable(d, e) ==
    CASE d = "WSL" ->
           IF "powershell.exe" \notin e.path THEN "false"
           ELSE IF e.psTest = "hang" THEN "pending"
           ELSE IF e.psTest = "ok" THEN "true" ELSE "false"
      [] d = "MPRIS" ->
           IF e.which = "hang" THEN "pending"
           ELSE IF "playerctl" \in e.path THEN "true" ELSE "false"
      [] d = "MacOS" ->
           IF platform(e) = "darwin" THEN "true" ELSE "false"

(* what detector.detect() settles with: a record, null, or nothing before   *)
(* the timer of the race ("late")                                           *)
TS_detect(d, e) ==
    IF e.tsDetect[d] = "record"
    THEN [settled |-> TRUE, media |-> MediaInfo("Hamnitishi", "E-Sir", "", d, "song")]
    ELSE IF e.tsDetect[d] = "none" THEN [settled |-> TRUE, media |-> Nil]
    ELSE [settled |-> FALSE, media |-> Nil]

(* detectCurrentAudio is called: timeout read, the loop starts *)
TSStart ==
    /\ impl = "ts" /\ pc = "start"
    /\ idx' = 1
    /\ pc' = IF Len(initializeDetectors(env)) = 0 THEN "done" ELSE "ts_next"
    /\ UNCHANGED <<history, bar, impl, env, file, left, calls, avail, outs, media, err, hookRet, line, listed, children, pending>>

(* await detector.isAvailable() is entered *)
TSCheckAvailable ==
    /\ impl = "ts" /\ pc = "ts_next"
    /\ calls' = Append(calls, <<"IsAvailable", idx>>)
    /\ pc' = "ts_checking"
    /\ UNCHANGED <<history, bar, impl, env, file, idx, left, avail, outs, media, err, hookRet, line, listed, children, pending>>

(* the loop goes on to the next detector, or detectCurrentAudio returns null *)
TSNextDetector ==
    IF idx < Len(initializeDetectors(env))
    THEN pc' = "ts_next" /\ idx' = idx + 1
    ELSE pc' = "done" /\ UNCHANGED idx

(* lines 52-58 with the settled value a of detector.isAvailable() *)
TSAvailability(a) ==
    /\ a # "pending"
    /\ avail' = avail @@ (idx :> (a = "true"))
    /\ IF a = "true"
       THEN /\ calls' = Append(calls, <<"Detect", idx>>)
            /\ children' = children \cup {idx}
            /\ pc' = "ts_racing"
            /\ UNCHANGED idx
       ELSE /\ UNCHANGED <<calls, children>>
            /\ TSNextDetector

(* isAvailable() settles; when true, Promise.race([detector.detect(), timer]) starts *)
TSAvailableSettles ==
    /\ impl = "ts" /\ pc = "ts_checking"
    /\ TSAvailability(TS_isAvailable(initializeDetectors(env)[idx], env))
    /\ UNCHANGED <<history, bar, impl, env, file, left, outs, media, err, hookRet, line, listed, pending>>

(* lines 58-70 with what the race settles with *)
TSRace(r) ==
    /\ outs' = outs @@ (idx :> [media |-> r.media,
                                err |-> IF r.settled THEN "" ELSE "Timeout",
                                panic |-> FALSE])
    /\ children' = IF r.settled THEN children \ {idx} ELSE children
    /\ IF r.settled /\ r.media.ok
       THEN /\ media' = r.media
            /\ pc' = "done"
            /\ UNCHANGED idx
       ELSE /\ UNCHANGED media
            /\ TSNextDetector

(* the child process isAvailable() awaits never exits: nothing bounds the  *)
(* await of line 53, and the pass stays suspended there                    *)
TSAvailableNeverSettles ==
    /\ impl = "ts" /\ pc = "ts_checking"
    /\ TS_isAvailable(initializeDetectors(env)[idx], env) = "pending"
    /\ pc' = "ts_hung"
    /\ UNCHANGED <<history, bar, impl, env, file, idx, left, calls, avail, outs, media, err, hookRet, line, listed, children, pending>>

(* the race settles: detect()'s value, or the timer's rejection (caught, continue) *)
TSRaceSettles ==
    /\ impl = "ts" /\ pc = "ts_racing"
    /\ TSRace(TS_detect(initializeDetectors(env)[idx], env))
    /\ UNCHANGED <<history, bar, impl, env, file, left, calls, avail, err, hookRet, line, listed, pending>>

----------------------------------------------------------------------------
(* The extension's bridge probe, the calling side (audioDetector.ts         *)
(* 213-264).  JSON.parse reads the objects the script prints (its own key   *)
(* names, values strings or null) as Unmarshal does.                        *)

(* lines 226-234: the filter on the lines of stdout *)
TS_keepLine(ln) ==
    /\ ~Contains(TrimSpace(ln), "Windows PowerShell")
    /\ ~Contains(TrimSpace(ln), "Copyright (C) Microsoft Corporation")
    /\ ~Contains(TrimSpace(ln), "Install the latest PowerShell")
    /\ ~Contains(TrimSpace(ln), "https://aka.ms/PSWindows")
    /\ ~HasPrefix(TrimSpace(ln), "PS ")
    /\ TrimSpace(ln) # ""

(* lines 251-257 *)
TS_bridgeRecord(result) ==
    IF ~result.ok THEN Nil
    ELSE MediaInfo(result.Title, result.Artist, result.Album,
                   IF result.Source = "" THEN "Unknown" ELSE result.Source, "song")

(* lines 238-250 *)
TS_bridgeOutput(output) ==
    IF output = "" THEN Nil ELSE Eval(TS_bridgeRecord, Unmarshal(output))

(* lines 222-236 *)
TS_bridgeLines(lines) == Eval(TS_bridgeOutput, TrimSpace(Join(SelectSeq(lines, TS_keepLine), "\n")))

(* c is what execFileAsync('powershell.exe', ...) settles with *)
TS_bridgeDetect(c) ==
    IF c.st # "ok" THEN Nil ELSE Eval(TS_bridgeLines, Split(TrimSpace(c.out), "\n"))

----------------------------------------------------------------------------
(* The extension's macOS probe, browser windows                             *)
(* (audioDetector.ts 373-479); JavaScript's regular expressions here are    *)
(* case-sensitive and their replace() changes the first match only          *)

TS_browsers == <<"Google Chrome", "Safari", "Firefox">>

(* line 389 *)
TS_isMediaWindow(w) == Contains(w, "YouTube") \/ Contains(w, "Music")

(* lines 391-396 *)
TS_priority(w) ==
    IF Contains(w, "Audio playing") THEN 3
    ELSE IF Contains(w, "YouTube Music") THEN 2 ELSE 1

TS_isTop(w) == TS_isMediaWindow(w) /\ TS_priority(w) = 3
TS_isMiddle(w) == TS_isMediaWindow(w) /\ TS_priority(w) = 2
TS_isLow(w) == TS_isMediaWindow(w) /\ TS_priority(w) = 1

(* lines 385-403: the media windows, highest priority first (stable sort) *)
TS_mediaWindows(lines) ==
    SelectSeq(lines, TS_isTop) \o SelectSeq(lines, TS_isMiddle) \o SelectSeq(lines, TS_isLow)

(* replace(/<pattern>.*$/, ''): cut at the first match *)
TS_cutAt(x, i) == IF i = 0 THEN x ELSE Sub(x, 1, i - 1)

TS_cut(x, pattern) == TS_cutAt(x, Index(x, pattern))

(* lines 414-419 *)
TS_cleanTitle(windowTitle) ==
    TS_cut(TS_cut(TS_cut(TS_cut(windowTitle, " - Google Chrome"), " ~ Audio playing"),
                  " - YouTube"), " ~ YouTube")

(* lines 463-469 *)
TS_record(title, artist, source) ==
    MediaInfo(TrimSpace(title), TrimSpace(artist), "", source, "song")

(* lines 436-439 *)
TS_songTitle(songTitle) ==
    IF Contains(songTitle, " ft. ") THEN Split(songTitle, " ft. ")[1] ELSE songTitle

(* lines 422-461 on cleanTitle c; p and q place a match as in FirstDashAt *)
TS_ytMusicMatch(c, p, q) == TS_record(Sub(c, 1, p - 1), Sub(c, p + 3, q - 1), "YouTube Music")

TS_videoMatch(c, p, q) ==
    TS_record(TS_songTitle(Sub(c, p + 3, q - 1)), Sub(c, 1, p - 1), "YouTube")

TS_ytMatch(c, p, q) == TS_record(Sub(c, p + 3, q - 1), Sub(c, 1, p - 1), "YouTube")

TS_genericMatch(c, p, browserName) ==
    TS_record(Sub(c, p + 3, Len(c)), Sub(c, 1, p - 1), browserName)

TS_parseWindow(windowTitle, browserName, c) ==
    IF FirstDashAt(c, Occurrences(c, " - YouTube Music")) > 0
    THEN TS_ytMusicMatch(c, FirstDashAt(c, Occurrences(c, " - YouTube Music")),
             TailAfter(FirstDashAt(c, Occurrences(c, " - YouTube Music")),
                       Occurrences(c, " - YouTube Music")))
    ELSE IF FirstDashAt(c, Occurrences(c, " (Video)")) > 0
    THEN TS_videoMatch(c, FirstDashAt(c, Occurrences(c, " (Video)")),
             TailAfter(FirstDashAt(c, Occurrences(c, " (Video)")), Occurrences(c, " (Video)")))
    ELSE IF FirstDashAt(c, Occurrences(c, " - YouTube")) > 0
    THEN TS_ytMatch(c, FirstDashAt(c, Occurrences(c, " - YouTube")),
             TailAfter(FirstDashAt(c, Occurrences(c, " - YouTube")), Occurrences(c, " - YouTube")))
    ELSE IF DashAt(c) > 0
    THEN TS_genericMatch(c, DashAt(c), browserName)
    ELSE TS_record(windowTitle, "", browserName)

RECURSIVE TS_getBrowserMediaInfoFrom(_, _)
(* lines 405-470 *)
TS_bestWindow(o, i, mediaWindows) ==
    IF Len(mediaWindows) = 0 THEN TS_getBrowserMediaInfoFrom(o, i + 1)
    ELSE TS_parseWindow(mediaWindows[1], TS_browsers[i], TS_cleanTitle(mediaWindows[1]))

(* lines 381-385 *)
TS_browserOutput(o, i, output) ==
    IF output = "" THEN TS_getBrowserMediaInfoFrom(o, i + 1)
    ELSE TS_bestWindow(o, i, TS_mediaWindows(Split(output, ", ")))

(* the loop from its i-th browser on; o.windows is what osascript answers; *)
(* a failing osascript is caught and the loop goes on                       *)
TS_getBrowserMediaInfoFrom(o, i) ==
    IF i > Len(TS_browsers) THEN Nil
    ELSE IF o.windows[TS_browsers[i]].st # "ok" THEN TS_getBrowserMediaInfoFrom(o, i + 1)
    ELSE TS_browserOutput(o, i, TrimSpace(o.windows[TS_browsers[i]].out))

TS_getBrowserMediaInfo(o) == TS_getBrowserMediaInfoFrom(o, 1)

(* The title cleanup of the extension's other macOS probe                   *)
(* (part_002 540-547): five replace() of the first match, ignoring case,    *)
(* then trim()                                                              *)

(* x without its characters i..j; x itself when i = 0 *)
CutOut(x, i, j) == IF i = 0 THEN x ELSE Sub(x, 1, i - 1) \o Sub(x, j + 1, Len(x))

(* replace(/<literal>/i, '') *)
TS_dropFirst(x, literal) ==
    CutOut(x, Index(ToLower(x), literal), Index(ToLower(x), literal) + Len(literal) - 1)

(* replace(/\((?:official )?<word>\)/i, ''): the leftmost of the two forms *)
TS_dropEither(x, i, long, j, short) ==
    IF i # 0 /\ (j = 0 \/ i < j) THEN CutOut(x, i, i + Len(long) - 1)
    ELSE CutOut(x, j, j + Len(short) - 1)

TS_dropQualifier(x, long, short) ==
    TS_dropEither(x, Index(ToLower(x), long), long, Index(ToLower(x), short), short)

(* replace(/\(?<marker>.*/i, ''): from the marker on, its "(" included *)
TS_cutFrom(x, i) ==
    IF i = 0 THEN x
    ELSE IF At(x, i - 1) = "(" THEN Sub(x, 1, i - 2) ELSE Sub(x, 1, i - 1)

TS_cutFeatured(x, marker) == TS_cutFrom(x, Index(ToLower(x), marker))

TS_cleanupTitle(title) ==
    TrimSpace(TS_cutFeatured(TS_cutFeatured(
        TS_dropQualifier(TS_dropQualifier(TS_dropFirst(title, "(official music video)"),
                                          "(official video)", "(video)"),
                         "(official audio)", "(audio)"),
        "ft."), "feat."))

----------------------------------------------------------------------------
(* The machines and inputs the runs are checked on                          *)

MaxBudget == 2
NoDeadline == 99

(* commands that complete before the hook's 5 s deadline; NoDeadline: all *)
Budgets == (0..MaxBudget) \cup {NoDeadline}

kernelWSL == "Linux version 5.15.90.1-microsoft-standard-WSL2"
kernelLinux == "Linux version 6.1.0-18-amd64"

ProcVersions(goos) ==
    IF goos = "linux"
    THEN {[exists |-> TRUE, content |-> kernelWSL], [exists |-> TRUE, content |-> kernelLinux],
          [exists |-> FALSE, content |-> ""]}
    ELSE {[exists |-> FALSE, content |-> ""]}

Tools(goos) ==
    CASE goos = "linux" -> {"playerctl", "powershell.exe"}
      [] goos = "darwin" -> {"osascript", "powershell.exe"}
      [] goos = "windows" -> {"powershell.exe"}

Platforms ==
    {[goos |-> g, procVersion |-> v, wslDistro |-> w, path |-> p] :
        g \in {"linux", "darwin", "windows"}, v \in ProcVersions("linux"),
        w \in {"", "Ubuntu"}, p \in SUBSET {"playerctl", "powershell.exe", "osascript"}}

RealPlatforms == {p \in Platforms : p.procVersion \in ProcVersions(p.goos) /\ p.path \subseteq Tools(p.goos)}

Contents ==
    { "fix: bug", "fix: bug\n", "fix: bug\n\n\n", "", " \n\t\n", "# Please enter the message\n#\n",
      "fix: bug\n\n# Please enter the message\n", "  # indented comment\n" }

(* <<readable, writable>> of the message file; the unreadable and the       *)
(* read-only file are tried with one message                                *)
FileModes(f) ==
    IF f = "fix: bug\n" THEN {<<TRUE, TRUE>>, <<TRUE, FALSE>>, <<FALSE, TRUE>>}
    ELSE {<<TRUE, TRUE>>}

NoTsDetect == [d \in {"MPRIS", "WSL", "MacOS"} |-> "none"]

InList(seq, d) == \E i \in 1..Len(seq) : seq[i] = d

(* machines for the Go hook: platform p, every scenario of the tools its    *)
(* available probes run, every deadline, the given message files            *)
GoEnvsOn(platforms, files) ==
    UNION {
      { [goos |-> p.goos, procVersion |-> p.procVersion, wslDistro |-> p.wslDistro, path |-> p.path,
         playerctl |-> a, powershell |-> b, osascript |-> c, budget |-> n,
         content |-> fm[1], readable |-> fm[2][1], writable |-> fm[2][2],
         psTest |-> "ok", which |-> "ok", tsDetect |-> NoTsDetect] :
          a \in (IF MPRIS_IsAvailable(p) THEN DOMAIN PlayerctlScenarios ELSE {1}),
          b \in (IF WSL_IsAvailable(p) THEN DOMAIN PowershellScenarios ELSE {1}),
          c \in (IF Mac_IsAvailable(p) THEN DOMAIN OsascriptScenarios ELSE {1}),
          n \in (IF \E d \in {"MPRIS", "WSL", "MacOS"} : IsAvailable(d, p) THEN Budgets ELSE {NoDeadline}),
          fm \in UNION {{<<f, m>> : m \in FileModes(f)} : f \in files} }
      : p \in platforms }

(* machines for the extension: what the availability checks and the         *)
(* detect() calls of the probes in its list do                              *)
TSEnvs ==
    UNION {
      { [goos |-> p.goos, procVersion |-> p.procVersion, wslDistro |-> p.wslDistro, path |-> p.path,
         playerctl |-> 1, powershell |-> 1, osascript |-> 1, budget |-> NoDeadline,
         content |-> "", readable |-> TRUE, writable |-> TRUE,
         psTest |-> t, which |-> w, tsDetect |-> td] :
          t \in (IF InList(initializeDetectors(p), "WSL") /\ "powershell.exe" \in p.path
                 THEN {"ok", "err", "hang"} ELSE {"ok"}),
          w \in (IF InList(initializeDetectors(p), "MPRIS") THEN {"ok", "hang"} ELSE {"ok"}),
          td \in {f \in [{"MPRIS", "WSL", "MacOS"} -> {"record", "none", "late"}] :
                    \A d \in {"MPRIS", "WSL", "MacOS"} :
                        ~InList(initializeDetectors(p), d) => f[d] = "none"} }
      : p \in RealPlatforms }

Start ==
    /\ file = env.content
    /\ pc = "start"
    /\ idx = 0
    /\ left = 0
    /\ calls = <<>>
    /\ avail = <<>>
    /\ outs = <<>>
    /\ media = Nil
    /\ err = ""
    /\ hookRet = "running"
    /\ line = ""
    /\ listed = <<>>
    /\ children = {}
    /\ pending = {}
    /\ bar = NoBar
    /\ history = <<>>

(* Spec: one detection pass of either coordinator on every machine *)
Init ==
    /\ impl \in {"go", "ts"}
    /\ env \in (IF impl = "go" THEN GoEnvsOn(RealPlatforms, {"fix: bug\n"}) ELSE TSEnvs)
    /\ Start

(* SpecHook: one run of the git hook on every message file, on the Linux    *)
(* machines that have playerctl                                             *)
HookPlatforms == {p \in RealPlatforms : p.goos = "linux" /\ "playerctl" \in p.path /\ p.wslDistro = ""}

InitHook ==
    /\ impl = "go"
    /\ env \in GoEnvsOn(HookPlatforms, Contents)
    /\ Start

Next ==
    \/ HookStart
    \/ GoCheckAvailable
    \/ GoDetect
    \/ HookFinish
    \/ TSStart
    \/ TSCheckAvailable
    \/ TSAvailableSettles
    \/ TSAvailableNeverSettles
    \/ TSRaceSettles

Spec == Init /\ [][Next]_vars

NextHook ==
    \/ HookStart
    \/ GoCheckAvailable
    \/ GoDetect
    \/ HookFinish

SpecHook == InitHook /\ [][NextHook]_vars


MaxRuns == 3

(* git runs the hook once more on the same message file: a new process      *)
(* that finds the file as the last run left it                              *)
HookAgain ==
    /\ impl = "go" /\ pc = "done" /\ Len(history) < MaxRuns - 1
    /\ history' = Append(history, [ret |-> hookRet, media |-> media])
    /\ pc' = "start"
    /\ idx' = 0
    /\ left' = 0
    /\ calls' = <<>>
    /\ avail' = <<>>
    /\ outs' = <<>>
    /\ media' = Nil
    /\ err' = ""
    /\ hookRet' = "running"
    /\ line' = ""
    /\ UNCHANGED <<impl, env, file, listed, children, pending, bar>>

RunContents ==
    { "fix: bug", "fix: bug\n", "fix: bug\n\n\n", "# Please enter the message\n#\n",
      "fix: bug\n\n@ Currently playing: \"Hamnitishi\" by E-Sir (Spotify)\n" }

(* SpecRuns: up to MaxRuns runs of the hook, one after the other, on one    *)
(* message file of one machine                                              *)
InitRuns ==
    /\ impl = "go"
    /\ env \in GoEnvsOn(HookPlatforms, RunContents)
    /\ Start

NextRuns ==
    \/ HookStart
    \/ GoCheckAvailable
    \/ GoDetect
    \/ HookFinish
    \/ HookAgain

SpecRuns == InitRuns /\ [][NextRuns]_vars

(* SpecCmd: one run of the detect command on every machine *)
InitCmd ==
    /\ impl = "cmd"
    /\ env \in GoEnvsOn(RealPlatforms, {"fix: bug\n"})
    /\ Start

NextCmd ==
    \/ DetectList
    \/ DetectBegin
    \/ GoCheckAvailable
    \/ GoDetect
    \/ DetectFinish

SpecCmd == InitCmd /\ [][NextCmd]_vars

(* audioDetector.ts 88-90: this.detectors.map(d => d.name) *)
TSGetAvailableDetectors ==
    /\ impl = "ts" /\ pc = "start"
    /\ listed' = initializeDetectors(env)
    /\ pc' = "listed"
    /\ UNCHANGED <<history, bar, impl, env, file, idx, left, calls, avail, outs, media, err, hookRet, line, children, pending>>

(* SpecList: the list-available query of either coordinator on every       *)
(* machine, the detect command going on with its pass                      *)
InitList ==
    /\ impl \in {"cmd", "ts"}
    /\ env \in (IF impl = "cmd" THEN GoEnvsOn(RealPlatforms, {"fix: bug\n"}) ELSE TSEnvs)
    /\ Start

NextList ==
    \/ DetectList
    \/ DetectBegin
    \/ GoCheckAvailable
    \/ GoDetect
    \/ DetectFinish
    \/ TSGetAvailableDetectors

SpecList == InitList /\ [][NextList]_vars

----------------------------------------------------------------------------
(* The extension's commit message enhancement (gitIntegration.ts, and the   *)
(* GitIntegration of statusBarManager.ts with its 2-second poll).  `file`   *)
(* is the text of the commit message, `pending` the handlers suspended at   *)
(* `await detectCurrentAudio()`, `idx` the number of handlers started.      *)

(* String.prototype.replace with a string pattern: the first occurrence *)
ReplaceAt(s, i, old, new) ==
    IF i = 0 THEN s ELSE Sub(s, 1, i - 1) \o new \o Sub(s, i + Len(old), Len(s))

ReplaceFirst(s, old, new) == ReplaceAt(s, Index(s, old), old, new)

(* String.prototype.trimEnd *)
trimEnd(s) == Sub(s, 1, MaxOr0({i \in 1..Len(s) : At(s, i) \notin SpaceChars}))

(* ConfigManager.getCommitFormat: the setting, else the default that        *)
(* package.json contributes                                                 *)
packageCommitFormat == "$(music) Currently playing: \"{title}\" by {artist} ({source})"
noteCommitFormat == "@ Currently playing: \"{title}\" by {artist} ({source})"

CommitFormats == {packageCommitFormat, noteCommitFormat, "Listening to {title}"}

(* formatAudioLine and formatCommitMessage: the same three replace calls *)
formatAudioLine(template, m) ==
    ReplaceFirst(ReplaceFirst(ReplaceFirst(template, "{title}", m.Title), "{artist}", m.Artist),
                 "{source}", m.Source)

(* the filter of enhanceCommitMessage: a line that is neither blank nor a comment *)
isMeaningful(trimmed) == trimmed # "" /\ ~HasPrefix(trimmed, "#")

hasMeaningfulLines(lines) == \E i \in 1..Len(lines) : isMeaningful(TrimSpace(lines[i]))

(* enhanceCommitMessage after its await, on the text it then reads *)
enhanceCommitMessage(currentText, m, template) ==
    IF ~m.ok THEN currentText
    ELSE IF Contains(currentText, "@ Currently playing:") THEN currentText
    ELSE IF ~hasMeaningfulLines(Split(currentText, "\n")) THEN currentText
    ELSE trimEnd(currentText) \o "\n\n" \o formatAudioLine(template, m)

(* enhanceCommitWithAudio after its await, on the value of the input box *)
enhanceCommitWithAudio(value, m, template) ==
    IF ~m.ok THEN value
    ELSE IF Contains(value, "@ Currently playing:") THEN value
    ELSE trimEnd(value) \o "\n\n" \o formatAudioLine(template, m)

(* the test enhanceSourceControlInput makes before it detects *)
wantsEnhancement(currentMessage) ==
    /\ currentMessage # ""
    /\ TrimSpace(currentMessage) # ""
    /\ ~Contains(currentMessage, "@")
    /\ ~Contains(currentMessage, "Currently playing:")

(* enhanceSourceControlInput after its await: the message read before it *)
enhanceSourceControlInput(value, currentMessage, m, template) ==
    IF ~m.ok THEN value ELSE currentMessage \o "\n\n" \o formatAudioLine(template, m)

MaxHandlers == 3

Handler(h, msg) == [id |-> idx + 1, h |-> h, msg |-> msg]

EditorUnchanged ==
    UNCHANGED <<history, bar, impl, env, pc, left, calls, avail, outs, media, err, hookRet, line, listed, children>>

(* onDidChangeActiveTextEditor on the commit message editor *)
FocusEditor ==
    /\ impl = "editor" /\ idx < MaxHandlers
    /\ pending' = pending \cup {Handler("focus", "")}
    /\ idx' = idx + 1
    /\ UNCHANGED file
    /\ EditorUnchanged

(* one of the interactive-commit.git.commit* commands is run *)
CommitCommand ==
    /\ impl = "editor" /\ idx < MaxHandlers
    /\ pending' = pending \cup {Handler("command", "")}
    /\ idx' = idx + 1
    /\ UNCHANGED file
    /\ EditorUnchanged

(* the 2-second timer fires on a message that passes the test *)
PollTick ==
    /\ impl = "editor" /\ idx < MaxHandlers
    /\ wantsEnhancement(file)
    /\ pending' = pending \cup {Handler("poll", file)}
    /\ idx' = idx + 1
    /\ UNCHANGED file
    /\ EditorUnchanged

MaxEdits == 1

(* the user types at the end of the message while handlers are suspended;   *)
(* calls logs the edits                                                     *)
UserTypes ==
    /\ impl = "editor" /\ Len(calls) < MaxEdits
    /\ file' = file \o " more"
    /\ calls' = Append(calls, <<"type", 0>>)
    /\ UNCHANGED <<history, bar, impl, env, pc, idx, left, avail, outs, media, err, hookRet, line,
                   listed, children, pending>>

(* what detectCurrentAudio can resolve with on this machine *)
Detections == {env.playing, Nil}

(* detectCurrentAudio resolves for a suspended handler, which runs to its end *)
FocusEnhance ==
    /\ impl = "editor"
    /\ \E p \in pending, m \in Detections :
          /\ p.h = "focus"
          /\ file' = enhanceCommitMessage(file, m, env.commitFormat)
          /\ pending' = pending \ {p}
    /\ UNCHANGED idx
    /\ EditorUnchanged

CommandEnhance ==
    /\ impl = "editor"
    /\ \E p \in pending, m \in Detections :
          /\ p.h = "command"
          /\ file' = enhanceCommitWithAudio(file, m, env.commitFormat)
          /\ pending' = pending \ {p}
    /\ UNCHANGED idx
    /\ EditorUnchanged

PollEnhance ==
    /\ impl = "editor"
    /\ \E p \in pending, m \in Detections :
          /\ p.h = "poll"
          /\ file' = enhanceSourceControlInput(file, p.msg, m, env.commitFormat)
          /\ pending' = pending \ {p}
    /\ UNCHANGED idx
    /\ EditorUnchanged

(* the messages the user has typed when the first handler starts *)
EditorMessages == {"fix: bug", "fix: bug\n", "", "# only a comment\n"}

EditorPlaying == {MediaInfo("Hamnitishi", "E-Sir", "", "Spotify", "song")}

(* SpecEdit: an enabled extension, up to MaxHandlers enhancement handlers   *)
(* started in any order and interleaving on one commit message              *)
InitEdit ==
    /\ impl = "editor"
    /\ env \in [commitFormat : CommitFormats, playing : EditorPlaying, content : EditorMessages]
    /\ Start

NextEdit ==
    \/ FocusEditor
    \/ CommitCommand
    \/ PollTick
    \/ UserTypes
    \/ FocusEnhance
    \/ CommandEnhance
    \/ PollEnhance

SpecEdit == InitEdit /\ [][NextEdit]_vars

----------------------------------------------------------------------------
(* The extension's status bar (statusBarManager.ts, StatusBarManager).      *)
(* JavaScript runs each handler to its next await without interleaving, so  *)
(* an action is one such run.  "*" stands for the bullet character.         *)

getSourceIcon(source) ==
    CASE source \in {"Spotify", "YouTube Music", "iTunes", "Apple Music"} -> "$(music)"
      [] source \in {"YouTube", "VLC"} -> "$(device-camera-video)"
      [] source \in {"Chrome", "Edge", "Firefox"} -> "$(browser)"
      [] OTHER -> "$(music)"

addServiceStyling(text, source) ==
    CASE source = "Spotify" -> text \o " * Spotify"
      [] source = "YouTube Music" -> text \o " * YT Music"
      [] source = "Apple Music" -> text \o " * Apple Music"
      [] OTHER -> text

maxLength == 50

truncate(text) ==
    IF Len(text) > maxLength THEN Sub(text, 1, maxLength - 3) \o "..." ELSE text

(* text.substring(8) keeps the blank that followed "$(music)" *)
formatStatusText(m) ==
    truncate(addServiceStyling(
        getSourceIcon(m.Source) \o " "
            \o Sub(IF m.Artist # "" THEN "$(music) " \o m.Title \o " - " \o m.Artist
                   ELSE "$(music) " \o m.Title, 9, 1000),
        m.Source))

noAudioText == "$(mute) No audio"
idleText == "$(music) Interactive Commit"
errorText == "$(warning) Detection Error"
warningBackground == "statusBarItem.warningBackground"
errorBackground == "statusBarItem.errorBackground"

(* what one detection pass met: a probe returned a record, every probe     *)
(* answered without media, or the tools of every probe errored             *)
PassKinds == {"record", "empty", "errored"}

(* AudioDetector.detectCurrentAudio as the status bar sees it: a settled    *)
(* promise.  A probe's error is caught inside the loop and the pass goes    *)
(* on; after the loop the pass resolves with null.                          *)
detectCurrentAudio(kind, m) ==
    [rejected |-> FALSE, value |-> IF kind = "record" THEN m ELSE Nil]

(* updateStatusBar from its await to its end *)
updateStatusBar(b, settled) ==
    IF settled.rejected
    THEN [b EXCEPT !.text = errorText, !.backgroundColor = errorBackground]
    ELSE IF settled.value.ok
    THEN [b EXCEPT !.currentMedia = settled.value,
                   !.text = formatStatusText(settled.value),
                   !.backgroundColor = ""]
    ELSE IF b.currentMedia.ok
    THEN [b EXCEPT !.currentMedia = Nil, !.text = noAudioText,
                   !.backgroundColor = warningBackground]
    ELSE [b EXCEPT !.text = idleText, !.backgroundColor = ""]

MaxPolls == 4

BarUnchanged ==
    UNCHANGED <<history, impl, env, file, left, calls, avail, media, err, hookRet, line, listed, children>>

(* stopUpdating, then setInterval, then the initial updateStatusBar call,   *)
(* which runs to its await                                                  *)
startUpdating(b) ==
    /\ bar' = [b EXCEPT !.updateTimer = TRUE]
    /\ pending' = pending \cup {idx + 1}
    /\ idx' = idx + 1

stopUpdating(b) == [b EXCEPT !.updateTimer = FALSE]

(* new StatusBarManager(audioDetector, config) *)
BarNew ==
    /\ impl = "bar" /\ pc = "start"
    /\ bar' = [made |-> TRUE, showStatusBar |-> env.showStatusBar, shown |-> FALSE,
               updateTimer |-> FALSE, listening |-> FALSE, currentMedia |-> Nil,
               text |-> "", backgroundColor |-> ""]
    /\ pc' = "made"
    /\ UNCHANGED <<idx, outs, pending>>
    /\ BarUnchanged

(* start(): the listener's disposable is not kept *)
BarStart ==
    /\ impl = "bar" /\ pc = "made"
    /\ IF bar.showStatusBar
       THEN startUpdating([bar EXCEPT !.shown = TRUE, !.listening = TRUE])
       ELSE bar' = [bar EXCEPT !.listening = TRUE] /\ UNCHANGED <<idx, pending>>
    /\ pc' = "started"
    /\ UNCHANGED outs
    /\ BarUnchanged

(* the user sets interactive-commit.showStatusBar; the listener runs if     *)
(* it is registered                                                         *)
ConfigShowStatusBar ==
    /\ impl = "bar" /\ pc \in {"started", "disposed"} /\ idx < MaxPolls
    /\ \E v \in BOOLEAN :
          IF ~bar.listening
          THEN bar' = [bar EXCEPT !.showStatusBar = v] /\ UNCHANGED <<idx, pending>>
          ELSE IF v
          THEN startUpdating([bar EXCEPT !.showStatusBar = v, !.shown = TRUE])
          ELSE /\ bar' = stopUpdating([bar EXCEPT !.showStatusBar = v, !.shown = FALSE])
               /\ UNCHANGED <<idx, pending>>
    /\ UNCHANGED <<pc, outs>>
    /\ BarUnchanged

(* the user sets interactive-commit.refreshInterval *)
ConfigRefreshInterval ==
    /\ impl = "bar" /\ pc \in {"started", "disposed"} /\ idx < MaxPolls
    /\ bar.listening
    /\ startUpdating(bar)
    /\ UNCHANGED <<pc, outs>>
    /\ BarUnchanged

(* the interval timer fires: updateStatusBar runs to its await *)
TimerFires ==
    /\ impl = "bar" /\ pc \in {"started", "disposed"} /\ idx < MaxPolls
    /\ bar.updateTimer
    /\ pending' = pending \cup {idx + 1}
    /\ idx' = idx + 1
    /\ UNCHANGED <<pc, outs, bar>>
    /\ BarUnchanged

(* the detection pass of one suspended update settles; the update runs to   *)
(* its end                                                                  *)
UpdateCompletes ==
    /\ impl = "bar" /\ pc \in {"started", "disposed"}
    /\ \E p \in pending, kind \in PassKinds, m \in env.playing :
          /\ bar' = updateStatusBar(bar, detectCurrentAudio(kind, m))
          /\ outs' = Append(outs, [id |-> p, kind |-> kind,
                                   value |-> detectCurrentAudio(kind, m).value])
          /\ pending' = pending \ {p}
    /\ UNCHANGED <<pc, idx>>
    /\ BarUnchanged

(* dispose() *)
BarDispose ==
    /\ impl = "bar" /\ pc = "started"
    /\ bar' = stopUpdating(bar)
    /\ pc' = "disposed"
    /\ UNCHANGED <<idx, outs, pending>>
    /\ BarUnchanged

BarPlaying ==
    {MediaInfo("Hamnitishi", "E-Sir", "", "Spotify", "song"),
     MediaInfo("Lofi Mix", "", "", "YouTube", "video")}

(* SpecBar: one StatusBarManager from its construction on, with up to       *)
(* MaxPolls detection passes started by the timer and by the listener       *)
InitBar ==
    /\ impl = "bar"
    /\ env \in [showStatusBar : BOOLEAN, playing : {BarPlaying}, content : {""}]
    /\ Start

NextBar ==
    \/ BarNew
    \/ BarStart
    \/ ConfigShowStatusBar
    \/ ConfigRefreshInterval
    \/ TimerFires
    \/ UpdateCompletes
    \/ BarDispose

SpecBar == InitBar /\ [][NextBar]_vars

(* SpecParse: every title parser applied to a window title, and every      *)
(* title cleanup applied to a title and then to its own result.  In these  *)
(* runs env is the input, line what the bridge script printed, outs the    *)
(* titles a parser or a cleanup worked on, media the record returned.      *)
WindowTitles ==
    { "Lo-Fi Hip Hop - ChilledCow - YouTube Music", "Episode 12 - The Daily - YouTube Music",
      "Lo-Fi - YouTube Music", "YouTube Music", "YouTube", "Spotify", "Google Chrome",
      "Microsoft Edge", "Firefox", "Safari", "New Tab", "",
      "E-Sir - Hamnitishi", "Inbox (3) - Google Chrome",
      "E-Sir - Hamnitishi (Official Video) - YouTube - Google Chrome",
      "E-Sir - (Official Video) - YouTube - Google Chrome",
      "Hamnitishi [Lyrics] - YouTube - Google Chrome",
      "(Official Video) - YouTube",
      "E-Sir - Hamnitishi (Video) ft. Nameless - YouTube",
      "E-Sir - Hamnitishi - YouTube" }

CleanupTitles ==
    { "Hamnitishi", "Hamnitishi (Official Video)", "Hamnitishi (Audio) ft. Nameless",
      "(Official Video)", "Hamnitishi (Video) (Video)", "Hamnitishi (Official (Audio)Video)",
      "Hamnitishi (Vi(Video)deo)", "Hamnitishi (Official Music Video) (Audio)", "" }

psProcesses == {"Spotify", "chrome", "msedge", "firefox"}
psBrowserSet == psProcesses \ {"Spotify"}

(* what the Spotify window shows *)
SpotifyTitles ==
    {"E-Sir - Hamnitishi", "Spotify", "Spotify Premium", "", "E-Sir - Moss - Live", "Ad\"s - \\o/"}

(* what powershell.exe can print: the script's JSON, with and without the   *)
(* banner of the shell before it, nothing, and text that is not JSON        *)
psBanner == "Windows PowerShell\r\nCopyright (C) Microsoft Corporation\r\n\r\n"
psPayload == "{\"Title\":\"Hamnitishi\",\"Artist\":\"E-Sir\",\"Source\":\"Spotify\",\"Album\":\"\"}\r\n"

BridgeStdouts ==
    {psPayload, psBanner \o psPayload, psBanner, "", "\r\n", "Get-Process : Access is denied\r\n",
     "{\"Title\":\"Hamnitishi\"", "PS C:\\> \r\n" \o psPayload}

(* proc "": there is no powershell.exe to launch *)
BridgeAnswer(e) == IF e.proc = "" THEN Failed ELSE Ok(e.title)

ParseInputs ==
    {[parser |-> "bridge", proc |-> x, title |-> t] : x \in psBrowserSet, t \in WindowTitles}
    \cup {[parser |-> "bridge", proc |-> "Spotify", title |-> t] : t \in SpotifyTitles}
    \cup {[parser |-> k, proc |-> b, title |-> t] :
            k \in {"mac", "tsmac"}, b \in browserNames, t \in WindowTitles}
    \cup {[parser |-> k, proc |-> "", title |-> t] :
            k \in {"cleanup", "tscleanup"}, t \in CleanupTitles}
    \cup {[parser |-> k, proc |-> "powershell.exe", title |-> t] :
            k \in {"output", "tsoutput"}, t \in BridgeStdouts}
    \cup {[parser |-> k, proc |-> "", title |-> ""] : k \in {"output", "tsoutput"}}

(* the one Windows process with a main window, the one macOS browser *)
WindowsOf(e) == [x \in psProcesses |-> IF x = e.proc THEN e.title ELSE ""]
OsascriptOf(e) == [NoOsascript EXCEPT !.windows[e.proc] = Ok(e.title \o "\n")]

InitParse ==
    /\ impl = "parse"
    /\ env \in ParseInputs
    /\ file = ""
    /\ pc = "start"
    /\ idx = 0
    /\ left = NoDeadline
    /\ calls = <<>>
    /\ avail = <<>>
    /\ outs = <<>>
    /\ media = Nil
    /\ err = ""
    /\ hookRet = "running"
    /\ line = ""
    /\ listed = <<>>
    /\ children = {}
    /\ pending = {}
    /\ bar = NoBar
    /\ history = <<>>

(* WSLWindowsDetector.Detect: the script runs on the windows, Go reads     *)
(* what it printed                                                          *)
BridgeParse ==
    /\ impl = "parse" /\ env.parser = "bridge" /\ pc = "start"
    /\ line' = PS_Script(WindowsOf(env))
    /\ \E r \in {WSL_DetectOn(WindowsOf(env), left)} :
          media' = r.media /\ err' = r.err
    /\ pc' = "done"
    /\ UNCHANGED <<history, bar, impl, env, file, idx, left, calls, avail, outs, hookRet, listed, children, pending>>

(* WSLWindowsDetector.Detect of Go on what powershell.exe answered *)
OutputParse ==
    /\ impl = "parse" /\ env.parser = "output" /\ pc = "start"
    /\ \E r \in {WSL_Output(RunCmd(BridgeAnswer(env), left))} :
          media' = r.media /\ err' = r.err
    /\ pc' = "done"
    /\ UNCHANGED <<history, bar, impl, env, file, idx, left, calls, avail, outs, hookRet, line, listed, children, pending>>

(* WSLWindowsDetector.detect of the extension on what powershell.exe answered *)
TSOutputParse ==
    /\ impl = "parse" /\ env.parser = "tsoutput" /\ pc = "start"
    /\ \E r \in {TS_bridgeDetect(BridgeAnswer(env))} : media' = r
    /\ pc' = "done"
    /\ UNCHANGED <<history, bar, impl, env, file, idx, left, calls, avail, outs, err, hookRet, line, listed, children, pending>>

(* the window detectBrowserMedia parses, if any *)
MacWindows(e) == findMediaWindows(TrimSpace(e.title \o "\n"))

(* MacOSDetector.detectBrowserMedia on the windows of one browser; outs    *)
(* keeps the title as it was before cleanupTitle                           *)
MacParse ==
    /\ impl = "parse" /\ env.parser = "mac" /\ pc = "start"
    /\ \E r \in {detectBrowserMedia(OsascriptOf(env), left)} :
          media' = r.media /\ err' = r.err
    /\ \E mediaWindows \in {MacWindows(env)} :
          outs' = IF Len(mediaWindows) = 0 THEN <<>> ELSE <<extractedTitle(mediaWindows[1])>>
    /\ pc' = "done"
    /\ UNCHANGED <<history, bar, impl, env, file, idx, left, calls, avail, hookRet, line, listed, children, pending>>

(* the extension's MacOSDetector.getBrowserMediaInfo on the same windows *)
TSMacParse ==
    /\ impl = "parse" /\ env.parser = "tsmac" /\ pc = "start"
    /\ media' = TS_getBrowserMediaInfo(OsascriptOf(env))
    /\ pc' = "done"
    /\ UNCHANGED <<history, bar, impl, env, file, idx, left, calls, avail, outs, err, hookRet, line, listed, children, pending>>

(* MacOSDetector.cleanupTitle on the title, then on what it returned *)
Cleanup ==
    /\ impl = "parse" /\ env.parser = "cleanup" /\ pc \in {"start", "once"}
    /\ outs' = Append(outs, cleanupTitle(IF pc = "start" THEN env.title ELSE outs[Len(outs)]))
    /\ pc' = IF pc = "start" THEN "once" ELSE "done"
    /\ UNCHANGED <<history, bar, impl, env, file, idx, left, calls, avail, media, err, hookRet, line, listed, children, pending>>

(* the extension's cleanup chain on the title, then on what it returned *)
TSCleanup ==
    /\ impl = "parse" /\ env.parser = "tscleanup" /\ pc \in {"start", "once"}
    /\ outs' = Append(outs, TS_cleanupTitle(IF pc = "start" THEN env.title ELSE outs[Len(outs)]))
    /\ pc' = IF pc = "start" THEN "once" ELSE "done"
    /\ UNCHANGED <<history, bar, impl, env, file, idx, left, calls, avail, media, err, hookRet, line, listed, children, pending>>

NextParse ==
    \/ BridgeParse
    \/ MacParse
    \/ TSMacParse
    \/ Cleanup
    \/ TSCleanup
    \/ OutputParse
    \/ TSOutputParse

SpecParse == InitParse /\ [][NextParse]_vars

(* SpecFormat: a caller formats one record, twice *)
FormatTitles == {"Hamnitishi", "Lo-Fi Beats", "Say \"Hi\"", "Intro (Live)", ""}
FormatArtists == {"", "E-Sir", "Unknown"}
FormatSources == {"Spotify", "YouTube", "Unknown"}

FormatInputs ==
    {Nil} \cup {MediaInfo(t, a, "", src, "song") :
                    t \in FormatTitles, a \in FormatArtists, src \in FormatSources}

NoMachine ==
    [goos |-> "linux", procVersion |-> [exists |-> FALSE, content |-> ""], wslDistro |-> "",
     path |-> {}, playerctl |-> 1, powershell |-> 1, osascript |-> 1, budget |-> NoDeadline,
     content |-> "", readable |-> TRUE, writable |-> TRUE,
     psTest |-> "ok", which |-> "ok", tsDetect |-> NoTsDetect]

InitFormat ==
    /\ impl = "format"
    /\ env = NoMachine
    /\ media \in FormatInputs
    /\ file = env.content
    /\ pc = "start"
    /\ idx = 0
    /\ left = 0
    /\ calls = <<>>
    /\ avail = <<>>
    /\ outs = <<>>
    /\ err = ""
    /\ hookRet = "running"
    /\ line = ""
    /\ listed = <<>>
    /\ children = {}
    /\ pending = {}
    /\ bar = NoBar
    /\ history = <<>>

(* format.FormatCommitMessage(media) is called: it reads its argument and  *)
(* returns the line, nothing else                                          *)
FormatCall ==
    /\ impl = "format" /\ pc \in {"start", "formatted"}
    /\ line' = FormatCommitMessage(media)
    /\ pc' = IF pc = "start" THEN "formatted" ELSE "done"
    /\ UNCHANGED <<history, bar, impl, env, file, idx, left, calls, avail, outs, media, err, hookRet, listed, children, pending>>

SpecFormat == InitFormat /\ [][FormatCall]_vars

----------------------------------------------------------------------------
(* Properties of a detection pass                                           *)

(* a probe's Detect handed back a record: err == nil && media != nil *)
Yields(o) == ~o.panic /\ o.err = "" /\ o.media.ok

(* the pass has returned to its caller *)
PassEnded == (impl = "go" /\ pc = "returned") \/ (impl = "ts" /\ pc = "done")

(* the k-th call of the pass is the detect of a probe that yielded a record *)
YieldingCall(k) ==
    /\ calls[k][1] = "Detect"
    /\ calls[k][2] \in DOMAIN outs
    /\ Yields(outs[calls[k][2]])

(* C1: a pass consults its probes strictly in list order (the first call   *)
(* is on probe 1, each later call is on the same probe or the next one, a  *)
(* probe's availability check comes before its detect); a detect that      *)
(* yielded a record is the last call of the pass; and the pass returns the *)
(* record of the first probe that yielded one, or none if no probe did.    *)
C1_FirstRecordInListOrder ==
    /\ Len(calls) > 0 => calls[1] = <<"IsAvailable", 1>>
    /\ \A k \in 1..(Len(calls) - 1) :
          \/ calls[k][1] = "IsAvailable" /\ calls[k + 1] = <<"Detect", calls[k][2]>>
          \/ calls[k + 1] = <<"IsAvailable", calls[k][2] + 1>>
    /\ \A k \in 1..Len(calls) : YieldingCall(k) => k = Len(calls)
    /\ PassEnded =>
          IF \E i \in DOMAIN outs : Yields(outs[i])
          THEN \E i \in DOMAIN outs :
                  /\ Yields(outs[i])
                  /\ media = outs[i].media
                  /\ \A j \in DOMAIN outs : j < i => ~Yields(outs[j])
          ELSE ~media.ok

(* C1 witness: the Go pass returned the second probe's record after the    *)
(* first probe, available, had yielded none.                               *)
C1_Witness ==
    /\ impl = "go" /\ pc = "returned"
    /\ DOMAIN outs = {1, 2}
    /\ avail[1] /\ ~Yields(outs[1])
    /\ Yields(outs[2]) /\ media = outs[2].media

(* C2: detect is only ever invoked on a probe whose availability check of  *)
(* this pass answered true; a probe that answered false has no detect, and *)
(* when the pass has ended the probe after it, if any, was consulted.      *)
C2_UnavailableSkipped ==
    /\ \A k \in 1..Len(calls) :
          calls[k][1] = "Detect" => calls[k][2] \in DOMAIN avail /\ avail[calls[k][2]]
    /\ \A i \in DOMAIN avail : ~avail[i] => i \notin DOMAIN outs
    /\ PassEnded =>
          \A i \in DOMAIN avail :
              ~avail[i] /\ i < Len(IF impl = "go" THEN addDetectors ELSE initializeDetectors(env))
                  => \E k \in 1..Len(calls) : calls[k] = <<"IsAvailable", i + 1>>

(* C2 witness: a probe answered unavailable and the next one was detected. *)
C2_Witness ==
    \E i \in DOMAIN avail :
        /\ ~avail[i]
        /\ \E k \in 1..Len(calls) : calls[k] = <<"Detect", i + 1>>

(* the probe's Detect handed back nothing: (nil, err) or (nil, nil) *)
Nothing(o) == ~o.panic /\ ~o.media.ok

(* C3: a pass never hangs, whatever the tools do (a tool that never        *)
(* answers included): it is never left waiting on a call that will not     *)
(* return; and a probe whose detect was cut off by the deadline counts as  *)
(* having yielded nothing, the pass going on from there.                   *)
C3_PassNeverHangs ==
    /\ pc # "ts_hung"
    /\ \A i \in DOMAIN outs : outs[i].err = "Timeout" => Nothing(outs[i])

(* what the caller of Detect is handed when the probes answered os: the    *)
(* first record among them, else the one no-audio error                    *)
FirstRecord(os) ==
    IF \E i \in DOMAIN os : os[i].ok
    THEN [media |-> os[CHOOSE i \in DOMAIN os : os[i].ok /\ \A j \in DOMAIN os : os[j].ok => i <= j],
          err |-> ""]
    ELSE [media |-> Nil, err |-> NoAudioError]

(* the answers of the probes with the difference between (nil, err) and    *)
(* (nil, nil) erased                                                       *)
Erased(os) == [i \in DOMAIN os |-> IF Yields(os[i]) THEN os[i].media ELSE Nil]

(* C4: what AudioManager.Detect returns is a function of its probes'       *)
(* answers with the difference between (nil, err) and (nil, nil) erased,   *)
(* so two passes that differ only there return the same; when no probe     *)
(* yielded a record the result is the one no-audio error, and runHook then *)
(* returns nil with the message file as it was.                            *)
C4_ErrorSameAsNothing ==
    /\ (impl = "go" /\ pc = "returned") =>
          /\ \A i \in DOMAIN outs : Yields(outs[i]) \/ Nothing(outs[i])
          /\ [media |-> media, err |-> err] = FirstRecord(Erased(outs))
    /\ (impl = "go" /\ pc = "done" /\ env.readable /\ \A i \in DOMAIN outs : Nothing(outs[i])) =>
          /\ err = NoAudioError
          /\ hookRet = "nil"
          /\ file = env.content

(* C4 witness: Detect returned after one probe had failed with an error    *)
(* and another had found nothing.                                          *)
C4_Witness ==
    /\ impl = "go" /\ pc = "returned"
    /\ \E i, j \in DOMAIN outs :
          /\ Nothing(outs[i]) /\ outs[i].err # ""
          /\ Nothing(outs[j]) /\ outs[j].err = ""

(* C5: no probe's Detect panics, whatever its tool printed: the pass hands *)
(* its caller a record or the no-audio error.                              *)
C5_NoPanic ==
    /\ \A i \in DOMAIN outs : ~outs[i].panic
    /\ hookRet # "panic"

(* C6: every record a probe's Detect returned has a non-empty title.       *)
C6_TitleNeverEmpty ==
    \A i \in DOMAIN outs : Yields(outs[i]) => outs[i].media.Title # ""

----------------------------------------------------------------------------
(* Properties of the hook and of the formatter                              *)

(* a line of the message that is empty, blank or a comment *)
BlankOrComment(l) == TrimSpace(l) = "" \/ HasPrefix(TrimSpace(l), "#")

AllBlankOrComment(ls) == \A i \in 1..Len(ls) : BlankOrComment(ls[i])

(* the message has no line that is neither blank nor a comment *)
NoRealLine(c) == AllBlankOrComment(Split(c, "\n"))

(* runHook has returned nil for a message with a real line after Detect    *)
(* had returned a record: the write of line 75 succeeded                   *)
Appended ==
    /\ impl = "go" /\ pc = "done" /\ hookRet = "nil"
    /\ err = "" /\ media.ok
    /\ ~NoRealLine(env.content)

(* c is x followed by newlines only, and x does not end in a newline *)
WithoutTrailingNewlines(c, x) ==
    /\ HasPrefix(c, x)
    /\ ~HasSuffix(x, "\n")
    /\ \A i \in (Len(x) + 1)..Len(c) : At(c, i) = "\n"

(* f is: c with its trailing newlines removed, a blank line, ln, a newline *)
IsRewriteOf(f, c, ln) ==
    \E n \in 0..Len(c) :
        /\ WithoutTrailingNewlines(c, Sub(c, 1, n))
        /\ f = Sub(c, 1, n) \o "\n\n" \o ln \o "\n"

(* C7, as stated: after the rewrite the file is the original content with  *)
(* its trailing newlines removed, a blank line, the formatter's line and a *)
(* final newline, and all the original content is a prefix of the file.    *)
C7_OriginalIsPrefix ==
    Appended =>
        /\ IsRewriteOf(file, env.content, FormatCommitMessage(media))
        /\ HasPrefix(file, env.content)

(* C7, amended: after the rewrite the file is the original content with    *)
(* its trailing newlines removed, a blank line, the formatter's line and a *)
(* final newline; the original content with its trailing newlines removed  *)
(* is a prefix of the file.  For "fix: bug" and Hamnitishi by E-Sir on     *)
(* Spotify the file is the text the specification gives.                   *)
C7_RewriteKeepsTrimmedPrefix ==
    Appended =>
        /\ IsRewriteOf(file, env.content, FormatCommitMessage(media))
        /\ \E n \in 0..Len(env.content) :
              /\ WithoutTrailingNewlines(env.content, Sub(env.content, 1, n))
              /\ HasPrefix(file, Sub(env.content, 1, n))
        /\ (env.content = "fix: bug" /\ media = MediaInfo("Hamnitishi", "E-Sir", "", "Spotify", "song"))
              => file = "fix: bug\n\n@ Currently playing: \"Hamnitishi\" by E-Sir (Spotify)\n"

(* C7 witness: the hook rewrote a message that ended in three newlines.    *)
C7_Witness ==
    /\ Appended
    /\ HasSuffix(env.content, "\n\n\n")
    /\ file # env.content

(* C8: when the message has no real line, runHook ends by returning nil    *)
(* with the file as it was, whatever the detection did.                    *)
C8_CommentOnlyUntouched ==
    (impl = "go" /\ pc = "done" /\ env.readable /\ NoRealLine(env.content)) =>
        /\ file = env.content
        /\ hookRet = "nil"

C10_FormatIsExactAndPure ==
    (impl = "format" /\ pc # "start") =>
        /\ ~media.ok => line = ""
        /\ (media.ok /\ media.Artist # "") =>
              line = "@ Currently playing: \"" \o media.Title \o "\" by " \o media.Artist
                        \o " (" \o media.Source \o ")"
        /\ (media.ok /\ media.Artist = "") =>
              line = "@ Currently playing: \"" \o media.Title \o "\" (" \o media.Source \o ")"
        /\ calls = <<>> /\ outs = <<>> /\ avail = <<>>

(* C10 witness: a record without artist was formatted twice.               *)
C10_Witness ==
    /\ impl = "format" /\ pc = "done"
    /\ media.ok /\ media.Artist = "" /\ media.Title # ""
    /\ line # ""

----------------------------------------------------------------------------
(* Properties of the detect command                                         *)

(* C11: whenever the detect command prints a commit message addition for   *)
(* the record it detected, the text is the line format.FormatCommitMessage *)
(* gives for that record, the one the hook appends.                        *)
C11_DetectShowsHookLine ==
    (impl = "cmd" /\ pc = "done" /\ err = "" /\ media.ok) => line = FormatCommitMessage(media)

(* a run that printed the addition for a record with an artist *)
C11_Witness ==
    /\ impl = "cmd" /\ pc = "done" /\ err = "" /\ media.ok
    /\ media.Artist # ""
    /\ line = FormatCommitMessage(media)

----------------------------------------------------------------------------
(* Properties of the title parsers                                          *)

(* the bridge probe has parsed the window of a browser *)
BridgeBrowserDone ==
    impl = "parse" /\ env.parser = "bridge" /\ env.proc # "Spotify" /\ pc = "done"

(* titles '<A> - <B> - YouTube Music', as <<A, B>> *)
YouTubeMusicForms == {<<"Lo-Fi Hip Hop", "ChilledCow">>, <<"Episode 12", "The Daily">>}

(* C12: for a browser window titled '<A> - <B> - YouTube Music' the bridge *)
(* probe returns the record with title A, artist B, source 'YouTube Music' *)
(* and kind 'song'.                                                         *)
C12_YouTubeMusicRecord ==
    \A ab \in YouTubeMusicForms :
        (BridgeBrowserDone /\ env.title = ab[1] \o " - " \o ab[2] \o " - YouTube Music")
            => media = MediaInfo(ab[1], ab[2], "", "YouTube Music", "song")

(* window titles that are an application's or a media site's own name *)
BareNames ==
    {"Spotify", "Google Chrome", "Microsoft Edge", "Firefox", "Safari", "YouTube", "YouTube Music"}

(* C13: a window whose title is exactly a bare application or site name    *)
(* gives no record, whichever parser reads it: the bridge script or the    *)
(* macOS browser-window parsing.                                           *)
C13_BareNameNoRecord ==
    (impl = "parse" /\ env.parser \in {"bridge", "mac", "tsmac"} /\ pc = "done"
        /\ env.title \in BareNames) => ~media.ok

(* C14: the title cleanup is idempotent: applied to its own result it      *)
(* changes nothing, for Go's cleanupTitle and for the extension's chain.   *)
C14_CleanupIdempotent ==
    (impl = "parse" /\ env.parser \in {"cleanup", "tscleanup"} /\ pc = "done")
        => outs[2] = outs[1]

(* C15: cleanup never empties a title: when a parser extracted a non-empty *)
(* title, the record it returns has a non-empty title (the title as it was *)
(* before cleanup when cleanup leaves nothing).                            *)
C15_CleanupKeepsTitle ==
    /\ (impl = "parse" /\ env.parser = "mac" /\ pc = "done" /\ media.ok /\ outs # <<>> /\ outs[1] # "")
          => /\ media.Title # ""
             /\ cleanupTitle(outs[1]) = "" => media.Title = outs[1]
    /\ (impl = "parse" /\ env.parser = "bridge" /\ pc = "done" /\ media.ok) => media.Title # ""

(* the probe list of the coordinator at work *)
ProbeList == IF impl = "ts" THEN initializeDetectors(env) ELSE addDetectors

(* native bus probe, bridge probe, automation probe *)
Rank(d) == CASE d = "MPRIS" -> 1 [] d = "WSL" -> 2 [] d = "MacOS" -> 3

(* the availability check of probe d answers true on this machine *)
ReportsAvailable(d) ==
    IF impl = "ts" THEN TS_isAvailable(d, env) = "true" ELSE IsAvailable(d, env)

(* C16: every coordinator's probe list has the native bus probe before the *)
(* bridge probe before the automation probe: of two probes a pass          *)
(* consults, the one consulted first has the lower rank, and the bridge is *)
(* never detected with on a machine whose list holds an available MPRIS.   *)
C16_NativeBeforeBridge ==
    impl \in {"go", "ts"} =>
        /\ \A k, m \in 1..Len(calls) :
              (k < m /\ calls[k][2] # calls[m][2])
                  => Rank(ProbeList[calls[k][2]]) < Rank(ProbeList[calls[m][2]])
        /\ \A k \in 1..Len(calls) :
              (calls[k][1] = "Detect" /\ ProbeList[calls[k][2]] = "WSL"
                  /\ InList(ProbeList, "MPRIS") /\ ReportsAvailable("MPRIS"))
                  => \E m \in 1..(k - 1) : calls[m][1] = "Detect" /\ ProbeList[calls[m][2]] = "MPRIS"

(* C17: a timed-out probe's child process is terminated before the         *)
(* coordinator moves on: the only child process running is that of the     *)
(* probe whose detect is in flight, none runs once the pass has returned,  *)
(* and no probe is detected with twice in a pass.                          *)
C17_TimedOutChildTerminated ==
    impl \in {"go", "ts"} =>
        /\ children \subseteq (IF pc = "ts_racing" THEN {idx} ELSE {})
        /\ \A k, m \in 1..Len(calls) :
              (calls[k][1] = "Detect" /\ calls[m] = calls[k]) => k = m

(* where d stands in the probe list, 0: nowhere *)
PlaceOf(d) == MinOr0({i \in 1..Len(ProbeList) : ProbeList[i] = d})

(* C18: the list-available query answers exactly the probes whose          *)
(* availability check reports true, each once and in list order, and no    *)
(* probe's detect has been invoked by it.                                  *)
C18_ListIsExactlyAvailable ==
    (impl \in {"cmd", "ts"} /\ pc = "listed") =>
        /\ \A d \in {"MPRIS", "WSL", "MacOS"} :
              InList(listed, d) <=> (InList(ProbeList, d) /\ ReportsAvailable(d))
        /\ \A i, j \in 1..Len(listed) : i < j => PlaceOf(listed[i]) < PlaceOf(listed[j])
        /\ \A k \in 1..Len(calls) : calls[k][1] # "Detect"

(* C20: the rules are tried in priority order: a browser window title that *)
(* contains " - YouTube Music" and gives a record gives it by the YouTube   *)
(* Music rule, in the bridge script (the Source its JSON carries) and in    *)
(* the extension's macOS parser (the source of its record).                 *)
C20_YouTubeMusicRuleFirst ==
    (impl = "parse" /\ pc = "done" /\ media.ok /\ Contains(env.title, " - YouTube Music")) =>
        /\ (env.parser = "bridge" /\ env.proc # "Spotify")
              => Contains(line, "\"Source\":\"YouTube Music\"")
        /\ env.parser = "tsmac" => media.Source = "YouTube Music"

(* the lines of the message that are the audio line of this machine *)
AudioLinesOf(lines) ==
    {i \in 1..Len(lines) : lines[i] = formatAudioLine(env.commitFormat, env.playing)}

(* C19: the extension never appends an audio line to a message that holds  *)
(* one already: whatever handlers ran, in whatever interleaving, the commit *)
(* message holds at most one audio line, for the configured commit format.  *)
C19_AtMostOneAudioLine ==
    impl = "editor" => Cardinality(AudioLinesOf(Split(file, "\n"))) <= 1

(* the players of detectMusicApps whose player state query answers "playing" *)
PlayingApps(o) ==
    {i \in 1..Len(apps) : o.state[apps[i].name].st = "ok"
                             /\ TrimSpace(o.state[apps[i].name].out) = "playing"}

(* the place of the macOS probe in the Go list *)
MacPlace == MinOr0({i \in 1..Len(addDetectors) : addDetectors[i] = "MacOS"})

(* C21: MacOSDetector.Detect asks Spotify, Music, iTunes in that order and *)
(* returns the record of the first one that reports "playing"; a browser's *)
(* windows are read only when no player reports "playing".  Here: on a     *)
(* pass that ended before its deadline, when some player reports           *)
(* "playing", the probe hands back a record whose source is the first such *)
(* player.                                                                 *)
C21_FirstPlayingPlayer ==
    (impl = "go" /\ left > 0 /\ MacPlace \in DOMAIN outs
        /\ PlayingApps(Osascript(env)) # {})
        => /\ Yields(outs[MacPlace])
           /\ outs[MacPlace].media.Source = apps[MinOr0(PlayingApps(Osascript(env)))].source

(* C22: the calling side of the bridge strips the banner lines of the      *)
(* shell: when powershell.exe prints the payload, with or without banner    *)
(* lines before it, the probe returns the record of the payload; when it    *)
(* prints nothing, or no valid payload, or cannot be launched, the probe    *)
(* returns no record.                                                       *)
C22_BannerStripped ==
    (impl = "parse" /\ env.parser \in {"output", "tsoutput"} /\ pc = "done") =>
        IF env.proc # "" /\ env.title \in {psPayload, psBanner \o psPayload, "PS C:\\> \r\n" \o psPayload}
        THEN /\ media.ok
             /\ media.Title = "Hamnitishi" /\ media.Artist = "E-Sir" /\ media.Source = "Spotify"
        ELSE ~media.ok

(* what the status bar item shows *)
BarShows(b) ==
    CASE b.backgroundColor = errorBackground -> "error"
      [] b.backgroundColor = warningBackground -> "stopped"
      [] b.text = idleText -> "idle"
      [] OTHER -> "playing"

(* the state the last completed poll calls for, given the poll before it *)
BarExpected(log) ==
    CASE log[Len(log)].kind = "record" -> "playing"
      [] log[Len(log)].kind = "errored" -> "error"
      [] OTHER -> IF Len(log) >= 2 /\ log[Len(log) - 1].kind = "record"
                  THEN "stopped" ELSE "idle"

(* C23: after every completed poll the status bar shows the state that     *)
(* poll's outcome calls for: playing exactly when it returned a record,     *)
(* stopped on the first empty result after a record, idle on later empty    *)
(* results, and the error state when detection failed because the tools    *)
(* of every probe errored.                                                  *)
C23_StateReflectsLastPoll ==
    (impl = "bar" /\ outs # <<>>) => BarShows(bar) = BarExpected(outs)

(* the completed poll that was started last *)
NewestDone(log) ==
    log[CHOOSE k \in 1..Len(log) : \A j \in 1..Len(log) : log[j].id <= log[k].id]

(* C28: once every started poll has completed, currentMedia and the text    *)
(* shown are those of the poll that was started last; a poll started        *)
(* earlier that completes later does not overwrite them.                    *)
C28_NewestPollWins ==
    (impl = "bar" /\ outs # <<>> /\ pending = {}) =>
        /\ bar.currentMedia = NewestDone(outs).value
        /\ NewestDone(outs).value.ok => bar.text = formatStatusText(NewestDone(outs).value)
        /\ ~NewestDone(outs).value.ok => bar.text \in {noAudioText, idleText}

(* C27: after dispose() no poll timer is active and no detection pass is    *)
(* started, whatever configuration changes arrive.                          *)
C27_NoPassAfterDispose ==
    [][(impl = "bar" /\ pc = "disposed") => (~bar.updateTimer /\ ~bar'.updateTimer /\ idx' = idx)]_vars

(* C29: when a 2-second input-box poll writes the enhanced message, what    *)
(* the box held at that moment is a prefix of what it holds afterwards,     *)
(* also when the user edited the box or another handler wrote to it while   *)
(* the poll's detection was in flight.                                      *)
C29_PollKeepsBoxContent ==
    [][(impl = "editor" /\ file' # file /\ \E p \in pending : p.h = "poll" /\ p \notin pending')
          => HasPrefix(file', file)]_vars

(* C24: AudioManager.Detect returns either a record and no error or no      *)
(* record and an error, never neither and never both; so runDetect never    *)
(* prints 'No audio currently playing', and a pass that returned without a  *)
(* record is shown as 'Detection failed'.                                   *)
C24_RecordXorError ==
    /\ (impl \in {"go", "cmd"} /\ pc = "returned") => (media.ok <=> err = "")
    /\ (impl = "cmd" /\ pc = "done" /\ hookRet = "nil" /\ Len(listed) > 0) =>
          /\ line # noAudioPlaying
          /\ ~media.ok => line = detectionFailed \o NoAudioError

(* the detect command ended a pass in which a probe was asked and none      *)
(* returned a record                                                        *)
C24_Witness ==
    /\ impl = "cmd" /\ pc = "done" /\ hookRet = "nil"
    /\ \E i \in DOMAIN outs : ~Yields(outs[i])
    /\ ~media.ok /\ err = NoAudioError
    /\ line = detectionFailed \o NoAudioError

(* C25: the probes of a Go pass share one deadline.  A probe entered after  *)
(* the deadline has passed during an earlier probe returns no record and    *)
(* leaves the deadline passed, and a pass that returns in that condition    *)
(* returns the no-audio error.                                              *)
C25_SharedDeadline ==
    [][(impl \in {"go", "cmd"} /\ pc = "detect" /\ left = 0 /\ \E i \in DOMAIN outs : i < idx) =>
          /\ left' = 0
          /\ idx \in DOMAIN outs' /\ ~Yields(outs'[idx])
          /\ pc' = "returned" => (~media'.ok /\ err' = NoAudioError)]_vars

(* a pass returned the no-audio error after its deadline had passed in an   *)
(* earlier probe, although a later probe that was asked would have          *)
(* returned a record within a deadline of its own                           *)
C25_Witness ==
    /\ impl = "go" /\ pc = "returned" /\ left = 0 /\ err = NoAudioError
    /\ \E i \in DOMAIN outs, j \in DOMAIN outs :
          /\ i < j
          /\ ~Yields(outs[j])
          /\ Yields(DetectorDetect(addDetectors[j], env, NoDeadline))

(* the names the bridge script writes into the Source member *)
ScriptSources == {"Spotify", "YouTube Music", "YouTube", "Google Chrome", "Microsoft Edge", "Firefox"}

(* C26: the source of a record the Go bridge probe returns is the Source    *)
(* the script's matching rule printed: cleanSourceName leaves every name    *)
(* the script can print as it is.                                           *)
C26_SourceKept ==
    (impl = "parse" /\ env.parser = "bridge" /\ pc = "done" /\ media.ok) =>
        /\ Unmarshal(TrimSpace(line)).Source \in ScriptSources
        /\ media.Source = Unmarshal(TrimSpace(line)).Source

----------------------------------------------------------------------------
(* Properties of repeated runs of the hook                                  *)

(* a run that ended with ret and record m detected media on a message with  *)
(* real content and wrote the file                                          *)
DetectingRun(ret, m) == ret = "nil" /\ m.ok /\ hasRealContent(env.content)

(* the number of such runs so far, the one that has just ended included *)
DetectingRuns ==
    Cardinality({i \in DOMAIN history : DetectingRun(history[i].ret, history[i].media)})
        + (IF pc = "done" /\ DetectingRun(hookRet, media) THEN 1 ELSE 0)

CountAudioLines(lines) ==
    Cardinality({i \in 1..Len(lines) : HasPrefix(lines[i], "@ Currently playing: ")})

============================================================================
